---- MODULE Spec2Model ----
(***************************************************************************)
(* Host bridge runtime for Go WebAssembly modules (vite-wasm glue).        *)
(*                                                                         *)
(* Part 1: the instance driver (load, run, exit, resume, func-wrappers,    *)
(*         timer service) of glue/jsGo.ts (createJsGo) and glue/go.ts      *)
(*         (createJsGoInstance), driven by a nondeterministic guest.       *)
(* Part 2: the external-value table (storeValue, loadValue, removeRef)     *)
(*         over NaN-boxed 8-byte slots of the linear memory.               *)
(***************************************************************************)
EXTENDS Integers, Sequences, FiniteSets, TLC

(***************************************************************************)
(* Bounds of the model.                                                    *)
(***************************************************************************)
MaxTimers == 2      \* scheduleTimeoutEvent calls per behaviour
MaxDepth == 2       \* nesting of guest entries (run/resume within resume)
MaxRuns == 1        \* calls of run(args, env) per behaviour
MaxExits == 1       \* wasmExit calls per behaviour

MaxRefs == 2        \* references the guest takes to one value at a time
MaxOver == 1        \* finalizeRef calls on an id beyond its count reaching zero

MaxGrows == 2       \* memory growths of the guest per behaviour
MaxWrites == 3      \* calls of fs.writeSync per behaviour
MaxCalls == 2       \* reflective import calls per behaviour

ExitCodes == {0, 1}
Delays == {5}
FuncIds == {42}

NULL == "null"
MODULE_ == "module"

VARIABLES
  draft,                  \* which factory built the driver: "jsGo" | "go" | "jsGoInstance"
  module,                 \* module / _module: NULL or the loaded instance
  exited,                 \* exited / _exited
  exitResolved,           \* resolveExitPromise has been called
  runFutures,             \* one entry per run(args, env) call
  exitLog,                \* codes the guest passed to runtime.wasmExit
  warnings,               \* console.warn("exit code:", code) sink
  scheduledTimeouts,      \* keys of _scheduledTimeouts
  nextCallbackTimeoutID,  \* _nextCallbackTimeoutID
  hostTimers,             \* setTimeout handles: id -> [delay, st]
  stack,                  \* guest activations in progress, innermost last
  self_pendingEvent,      \* _pendingEvent property of the object seeded as id 6
  closure_pendingEvent,   \* _pendingEvent closure variable of createJsGo
  wrappers,               \* callback ids a func-wrapper was made for
  lastOp                  \* the last driver operation and how it ended

drvVars == <<draft, module, exited, exitResolved, runFutures, exitLog, warnings,
             scheduledTimeouts, nextCallbackTimeoutID, hostTimers, stack,
             self_pendingEvent, closure_pendingEvent, wrappers, lastOp>>

VARIABLES
  mem,                    \* linear memory: 8-byte slots, little-endian bytes
  values,                 \* values / _values, id i at position i + 1
  goRefCounts,            \* goRefCounts / _goRefCounts, indexed by id
  ids,                    \* ids / _ids: the inverse map, value -> id
  idPool,                 \* idPool / _idPool: the free-list
  held,                   \* references the guest holds per non-seeded id
  wellBehaved,            \* the guest never finalized an id it did not hold
  tblOp                   \* the last value-table operation

tblVars == <<mem, values, goRefCounts, ids, idPool, held, wellBehaved, tblOp>>

VARIABLES
  origin,                 \* per id: the host value whose storeValue allocated it
  hostOp,                 \* the host value the last storeValue was given
  argCall,                \* the last storeArguments call and what it returned
  int64Op,                \* the last setInt64 / getInt64 call
  guestEvent              \* the event the guest read from the object of id 6

auxVars == <<origin, hostOp, argCall, int64Op, guestEvent>>

VARIABLES
  sp,                     \* what module.exports.getsp() returns: the guest's SP
  impCall                 \* the reflective import in progress, or the last one

impVars == <<sp, impCall>>

VARIABLES
  hostArr,                \* the host value a copyBytes import is given
  copyOp                  \* the last copyBytesToGo / copyBytesToJS call

cpyVars == <<hostArr, copyOp>>

VARIABLES
  outputBuf,              \* outputBuf of sys.ts: decoded text not yet emitted
  sink,                   \* one entry per console.log(text) of writeSync
  writes,                 \* the byte arrays given to writeSync, in call order
  sysOp                   \* the last call of a member of fs or process

sysVars == <<outputBuf, sink, writes, sysOp>>

VARIABLES
  exportsBuf,             \* the ArrayBuffer module.exports.mem.buffer returns now
  dataViewBuf,            \* dataView.buffer of initMemoryBuffer; 0: ArrayBuffer(0)
  viewOp                  \* the last access through the memory buffer

viewVars == <<exportsBuf, dataViewBuf, viewOp>>

VARIABLES
  wallOp                  \* the last runtime.walltime call and the clock it read

clkVars == <<wallOp>>

ioVars == <<sysVars, viewVars, clkVars>>

extVars == <<impVars, cpyVars, ioVars>>

vars == <<drvVars, tblVars, auxVars, extVars>>

Drafts == {"jsGo", "go"}

\* with createJsGoInstance as jsGo.ts has it: exit sets the flag, the wrapper
\* writes the property
Factories == Drafts \cup {"jsGoInstance"}

\* a JS value: typeof, a sub-kind, and a payload (number, text or identity)
Val(t, k, n) == [t |-> t, k |-> k, n |-> n]

Undefined == Val("undefined", "", 0)
Null == Val("object", "null", 0)
Bool(b) == Val("boolean", "", IF b THEN 1 ELSE 0)
Num(i) == Val("number", "fin", i)
NaN == Val("number", "nan", 0)
Infinite(sign) == Val("number", "inf", sign)
OtherNum == Val("number", "other", 0)
Str(i) == Val("string", "str", i)
Obj(i) == Val("object", "obj", i)
Sym(i) == Val("symbol", "sym", i)
Fun(i) == Val("function", "fun", i)
GlobalThis == Val("object", "globalThis", 0)
JsGo == Val("object", "jsGo", 0)

\* the outcome of a driver operation; ret is what a func-wrapper returned
Op(op, by, res, exp, early, x) ==
  [op |-> op, by |-> by, res |-> res, exp |-> exp, early |-> early, x |-> x,
   ret |-> Undefined]

\* a guest activation; a wrapper's activation carries its event object
Frame(by, fut, tid, k, nested) ==
  [by |-> by, fut |-> fut, tid |-> tid, k |-> k, nested |-> nested, x |-> FALSE,
   this |-> Undefined, args |-> <<>>, result |-> Undefined]

\* a reference to the event object of the wrapper activation at stack[frame];
\* frame 0: the wrapper of that event has returned or thrown
EventRef(k, r, a, frame) == [id |-> k, this |-> r, args |-> a, frame |-> frame]

\* _pendingEvent = null
NoEvent == EventRef(0, Undefined, <<>>, 0)

\* the references to the event of the innermost activation, once it is gone
release(ref) == IF ref.frame = Len(stack) THEN [ref EXCEPT !.frame = 0] ELSE ref

\* receivers, argument lists and results of func-wrapper calls
Receivers == {Undefined, GlobalThis}
EventArgs == {<<>>, <<Num(3)>>}
Results == {Null, Num(3)}

Top == stack[Len(stack)]
Pop == SubSeq(stack, 1, Len(stack) - 1)

GuestRunning == stack # <<>>
HostIdle == stack = <<>>
\* go.ts returns the whole instance, so an embedder can call its members
\* before loadModule; createJsGo only exposes loadModule, run, importObject.
EmbedderEarly == draft # "jsGo" /\ module = NULL /\ stack = <<>>

InitDriver(d) ==
  /\ draft = d
  /\ module = NULL
  /\ exited = FALSE
  /\ exitResolved = FALSE
  /\ runFutures = <<>>
  /\ exitLog = <<>>
  /\ warnings = <<>>
  /\ scheduledTimeouts = {}
  /\ nextCallbackTimeoutID = 1
  /\ hostTimers = <<>>
  /\ stack = <<>>
  /\ self_pendingEvent = NoEvent
  /\ closure_pendingEvent = NoEvent
  /\ wrappers = {}
  /\ lastOp = Op("none", "none", "ok", "none", FALSE, FALSE)

(***************************************************************************)
(* Driver operations.                                                      *)
(***************************************************************************)

\* exit(code): createJsGo sets the flag; createJsGoInstance of go.ts only warns.
exit_zeroOnly(code) ==
  /\ exited' = (IF code = 0 THEN TRUE ELSE exited)
  /\ warnings' = IF code # 0 THEN Append(warnings, code) ELSE warnings

exit(code) ==
  /\ exited' = (IF draft # "go" THEN TRUE ELSE exited)
  /\ warnings' = IF code # 0 THEN Append(warnings, code) ELSE warnings

\* The two guards at the head of resume / _resume / getsp / run.
moduleGuard_none == "ok"

moduleGuard == IF module = NULL THEN "NotLoaded" ELSE "ok"

resumeGuard ==
  IF module = NULL THEN "NotLoaded"
  ELSE IF exited THEN "AlreadyExited"
  ELSE "enter"

\* "if (exited) resolveExitPromise()" after module.run / module.resume returned.
resolveIfExited_never == exitResolved' = exitResolved

resolveIfExited == exitResolved' = (exitResolved \/ exited)

\* a rebind that leaves the view on the buffer it had
setBuffer_keeps(buffer) == dataViewBuf

\* setBuffer(buffer): dataView = new DataView(buffer)
setBuffer(buffer) == buffer

\* loadModule(instance): module = instance; resetMemoryDataView()
LoadModule ==
  /\ HostIdle
  /\ module' = MODULE_
  /\ dataViewBuf' = setBuffer(exportsBuf)
  /\ viewOp' = [viewOp EXCEPT !.cap = exportsBuf]
  /\ lastOp' = Op("loadModule", "host", "ok", "none", FALSE, FALSE)
  /\ UNCHANGED <<draft, exited, exitResolved, runFutures, exitLog, warnings,
                 scheduledTimeouts, nextCallbackTimeoutID, hostTimers, stack,
                 self_pendingEvent, closure_pendingEvent, wrappers>>
  /\ UNCHANGED tblVars
  /\ UNCHANGED auxVars
  /\ UNCHANGED <<impVars, cpyVars, sysVars, clkVars, exportsBuf>>

\* run(args, env) after module.exports.run returned
ReturnFromRun ==
  /\ GuestRunning
  /\ Top.by = "run"
  /\ resolveIfExited
  /\ stack' = Pop
  /\ runFutures' = [runFutures EXCEPT ![Top.fut] = "awaiting"]
  /\ lastOp' = Op("run", "host", "returned", "none", FALSE, Top.x)
  /\ UNCHANGED <<draft, module, exited, exitLog, warnings, scheduledTimeouts,
                 nextCallbackTimeoutID, hostTimers, self_pendingEvent,
                 closure_pendingEvent, wrappers>>
  /\ UNCHANGED tblVars
  /\ UNCHANGED auxVars
  /\ UNCHANGED extVars

\* runtime.wasmExit(sp) called by the running guest
GuestWasmExit(code) ==
  /\ GuestRunning
  /\ Len(exitLog) < MaxExits
  /\ exitLog' = Append(exitLog, code)
  /\ exit(code)
  /\ stack' = [i \in 1..Len(stack) |-> [stack[i] EXCEPT !.x = TRUE]]
  /\ lastOp' = Op("exit", "guest", "ok", "none", FALSE, TRUE)
  /\ UNCHANGED <<draft, module, exitResolved, runFutures, scheduledTimeouts,
                 nextCallbackTimeoutID, hostTimers, self_pendingEvent,
                 closure_pendingEvent, wrappers>>
  /\ UNCHANGED tblVars
  /\ UNCHANGED auxVars
  /\ UNCHANGED extVars

\* exit(code) as a member of the go.ts instance, called before loadModule
ExitEarly(code) ==
  /\ EmbedderEarly
  /\ Len(warnings) < MaxExits
  /\ exit(code)
  /\ lastOp' = Op("exit", "host", "ok", "none", TRUE, FALSE)
  /\ UNCHANGED <<draft, module, exitResolved, runFutures, exitLog,
                 scheduledTimeouts, nextCallbackTimeoutID, hostTimers, stack,
                 self_pendingEvent, closure_pendingEvent, wrappers>>
  /\ UNCHANGED tblVars
  /\ UNCHANGED auxVars
  /\ UNCHANGED extVars

\* getsp(): by an import while the guest runs, or early on the go.ts instance
Getsp ==
  /\ GuestRunning \/ EmbedderEarly
  /\ lastOp' = IF moduleGuard = "NotLoaded"
                 THEN Op("getsp", "host", "NotLoaded", "none", TRUE, FALSE)
                 ELSE Op("getsp", "guest", "ok", "getsp", module = NULL, FALSE)
  /\ UNCHANGED <<draft, module, exited, exitResolved, runFutures, exitLog,
                 warnings, scheduledTimeouts, nextCallbackTimeoutID, hostTimers,
                 stack, self_pendingEvent, closure_pendingEvent, wrappers>>
  /\ UNCHANGED tblVars
  /\ UNCHANGED auxVars
  /\ UNCHANGED extVars

\* resetMemoryDataView(): the runtime.resetMemoryDataView import reads no
\* memory, so it reaches the driver even before a module is loaded
ResetMemoryDataView ==
  /\ GuestRunning \/ (module = NULL /\ HostIdle)
  /\ lastOp' = IF moduleGuard = "NotLoaded"
                 THEN Op("resetMemoryDataView", "host", "NotLoaded", "none", TRUE, FALSE)
                 ELSE Op("resetMemoryDataView", "guest", "ok", "none", module = NULL, FALSE)
  /\ dataViewBuf' = IF moduleGuard = "NotLoaded" THEN dataViewBuf
                                                 ELSE setBuffer(exportsBuf)
  /\ viewOp' = IF moduleGuard = "NotLoaded" THEN viewOp
                                            ELSE [viewOp EXCEPT !.cap = exportsBuf]
  /\ UNCHANGED <<draft, module, exited, exitResolved, runFutures, exitLog,
                 warnings, scheduledTimeouts, nextCallbackTimeoutID, hostTimers,
                 stack, self_pendingEvent, closure_pendingEvent, wrappers>>
  /\ UNCHANGED tblVars
  /\ UNCHANGED auxVars
  /\ UNCHANGED <<impVars, cpyVars, sysVars, clkVars, exportsBuf>>

\* _resume() as a member of the go.ts instance, called before loadModule
ResumeEarly ==
  /\ EmbedderEarly
  /\ resumeGuard # "enter"
  /\ lastOp' = Op("resume", "host", resumeGuard, "none", TRUE, FALSE)
  /\ UNCHANGED <<draft, module, exited, exitResolved, runFutures, exitLog,
                 warnings, scheduledTimeouts, nextCallbackTimeoutID, hostTimers,
                 stack, self_pendingEvent, closure_pendingEvent, wrappers>>
  /\ UNCHANGED tblVars
  /\ UNCHANGED auxVars
  /\ UNCHANGED extVars

(***************************************************************************)
(* Func-wrappers.                                                          *)
(***************************************************************************)

\* _makeFuncWrapper(id): by the guest through the object seeded as id 6, or
\* early on the go.ts instance
MakeFuncWrapper(k) ==
  /\ GuestRunning \/ EmbedderEarly
  /\ k \notin wrappers
  /\ wrappers' = wrappers \cup {k}
  /\ UNCHANGED <<draft, module, exited, exitResolved, runFutures, exitLog,
                 warnings, scheduledTimeouts, nextCallbackTimeoutID, hostTimers,
                 stack, self_pendingEvent, closure_pendingEvent, lastOp>>
  /\ UNCHANGED tblVars
  /\ UNCHANGED auxVars
  /\ UNCHANGED extVars

\* a wrapper that leaves a staged event of a call in progress in place
stageEvent_keepsStaged(ev) ==
  /\ self_pendingEvent' = (IF draft # "jsGo" /\ self_pendingEvent.frame = 0
                             THEN ev ELSE self_pendingEvent)
  /\ closure_pendingEvent' = (IF draft = "jsGo" /\ closure_pendingEvent.frame = 0
                                THEN ev ELSE closure_pendingEvent)

\* a wrapper that stages its event only when resume is going to enter
stageEvent_ifEntering(ev) ==
  IF resumeGuard = "enter"
    THEN /\ self_pendingEvent' = (IF draft # "jsGo" THEN ev ELSE self_pendingEvent)
         /\ closure_pendingEvent' = (IF draft = "jsGo" THEN ev ELSE closure_pendingEvent)
    ELSE UNCHANGED <<self_pendingEvent, closure_pendingEvent>>

\* the wrapper stages its event: createJsGoInstance writes the property of
\* the instance (the object seeded as id 6), createJsGo its closure variable
stageEvent(ev) ==
  /\ self_pendingEvent' = (IF draft # "jsGo" THEN ev ELSE self_pendingEvent)
  /\ closure_pendingEvent' = (IF draft = "jsGo" THEN ev ELSE closure_pendingEvent)

\* the body of a wrapper up to module.exports.resume
wrapperCall(k, r, a, nested) ==
  /\ IF resumeGuard = "enter"
       THEN /\ stageEvent(EventRef(k, r, a, Len(stack) + 1))
            /\ stack' = Append(stack, [Frame("wrapper", 0, 0, k, nested)
                                         EXCEPT !.this = r, !.args = a])
            /\ lastOp' = Op("wrapper", IF nested THEN "guest" ELSE "host",
                            "entered", "resume", module = NULL, FALSE)
       ELSE /\ stageEvent(EventRef(k, r, a, 0))
            /\ stack' = stack
            /\ lastOp' = Op("wrapper", IF nested THEN "guest" ELSE "host",
                            resumeGuard, "none", module = NULL, FALSE)
  /\ UNCHANGED <<draft, module, exited, exitResolved, runFutures, exitLog,
                 warnings, scheduledTimeouts, nextCallbackTimeoutID, hostTimers,
                 wrappers>>
  /\ UNCHANGED tblVars
  /\ UNCHANGED auxVars
  /\ UNCHANGED extVars

\* a wrapper invoked by host code (an event listener) from the event loop
InvokeWrapper(k, r, a) ==
  /\ HostIdle
  /\ k \in wrappers
  /\ wrapperCall(k, r, a, FALSE)

\* a wrapper invoked by the guest through valueCall / valueInvoke, whose
\* try/catch keeps a resume error inside the import
GuestInvokeWrapper(k, r, a) ==
  /\ GuestRunning
  /\ Len(stack) < MaxDepth
  /\ k \in wrappers
  /\ wrapperCall(k, r, a, TRUE)

\* a wrapper after module.exports.resume returned: return event.result
ReturnFromWrapper ==
  /\ GuestRunning
  /\ Top.by = "wrapper"
  /\ resolveIfExited
  /\ stack' = Pop
  /\ lastOp' = [Op("wrapper", IF Top.nested THEN "guest" ELSE "host",
                   "returned", "none", FALSE, Top.x) EXCEPT !.ret = Top.result]
  /\ self_pendingEvent' = release(self_pendingEvent)
  /\ closure_pendingEvent' = release(closure_pendingEvent)
  /\ guestEvent' = release(guestEvent)
  /\ UNCHANGED <<draft, module, exited, runFutures, exitLog, warnings,
                 scheduledTimeouts, nextCallbackTimeoutID, hostTimers, wrappers>>
  /\ UNCHANGED tblVars
  /\ UNCHANGED <<origin, hostOp, argCall, int64Op>>
  /\ UNCHANGED extVars

\* syscall/js.valueGet(jsGo, "_pendingEvent"): the guest reads the property of
\* the object seeded as id 6
GuestGetPendingEvent ==
  /\ GuestRunning
  /\ guestEvent' = self_pendingEvent
  /\ UNCHANGED drvVars
  /\ UNCHANGED tblVars
  /\ UNCHANGED <<origin, hostOp, argCall, int64Op>>
  /\ UNCHANGED extVars

\* syscall/js.valueSet(jsGo, "_pendingEvent", null)
GuestClearPendingEvent ==
  /\ GuestRunning
  /\ self_pendingEvent # NoEvent
  /\ self_pendingEvent' = NoEvent
  /\ UNCHANGED <<draft, module, exited, exitResolved, runFutures, exitLog,
                 warnings, scheduledTimeouts, nextCallbackTimeoutID, hostTimers,
                 stack, closure_pendingEvent, wrappers, lastOp>>
  /\ UNCHANGED tblVars
  /\ UNCHANGED auxVars
  /\ UNCHANGED extVars

\* syscall/js.valueSet(event, "result", v) on the event the guest read
GuestSetResult(v) ==
  /\ GuestRunning
  /\ guestEvent.frame > 0
  /\ stack' = [stack EXCEPT ![guestEvent.frame].result = v]
  /\ UNCHANGED <<draft, module, exited, exitResolved, runFutures, exitLog,
                 warnings, scheduledTimeouts, nextCallbackTimeoutID, hostTimers,
                 self_pendingEvent, closure_pendingEvent, wrappers, lastOp>>
  /\ UNCHANGED tblVars
  /\ UNCHANGED auxVars
  /\ UNCHANGED extVars

(***************************************************************************)
(* Timer service.                                                          *)
(***************************************************************************)

\* schedule(timeout) with the counter left as it was
schedule_sameId(timeout) ==
  /\ nextCallbackTimeoutID' = nextCallbackTimeoutID
  /\ scheduledTimeouts' = scheduledTimeouts \cup {nextCallbackTimeoutID}
  /\ hostTimers' = Append(hostTimers, [delay |-> timeout, st |-> "armed"])

\* schedule(timeout); the id it returns is the counter it read
schedule(timeout) ==
  /\ nextCallbackTimeoutID' = nextCallbackTimeoutID + 1
  /\ scheduledTimeouts' = scheduledTimeouts \cup {nextCallbackTimeoutID}
  /\ hostTimers' = Append(hostTimers, [delay |-> timeout, st |-> "armed"])

\* runtime.scheduleTimeoutEvent(sp)
GuestScheduleTimeout(delay) ==
  /\ GuestRunning
  /\ nextCallbackTimeoutID <= MaxTimers
  /\ schedule(delay + 1)
  /\ lastOp' = [Op("schedule", "guest", "ok", "none", FALSE, FALSE)
                  EXCEPT !.ret = Num(nextCallbackTimeoutID)]
  /\ UNCHANGED <<draft, module, exited, exitResolved, runFutures, exitLog,
                 warnings, stack, self_pendingEvent, closure_pendingEvent,
                 wrappers>>
  /\ UNCHANGED tblVars
  /\ UNCHANGED auxVars
  /\ UNCHANGED extVars

\* clearTimeout(timeoutId) leaving the host timer armed
clearTimeout_stillArmed(timers, id) == timers

\* the host's clearTimeout(timeoutId): a timer that has not fired never will
clearTimeout(timers, id) ==
  [timers EXCEPT ![id].st = IF @ = "armed" THEN "cleared" ELSE @]

\* remove(id) leaving the mapping in place
remove_keepsMapping(registry, id) == registry

\* remove(id): _scheduledTimeouts.delete(id)
remove(registry, id) == registry \ {id}

\* runtime.clearTimeoutEvent(sp)
GuestClearTimeout(id) ==
  /\ GuestRunning
  /\ IF id \notin scheduledTimeouts
       THEN UNCHANGED <<scheduledTimeouts, hostTimers>>
       ELSE /\ hostTimers' = clearTimeout(hostTimers, id)
            /\ scheduledTimeouts' = remove(scheduledTimeouts, id)
  /\ lastOp' = Op("clear", "guest", "ok", "none", FALSE, FALSE)
  /\ UNCHANGED <<draft, module, exited, exitResolved, runFutures, exitLog,
                 warnings, nextCallbackTimeoutID, stack, self_pendingEvent,
                 closure_pendingEvent, wrappers>>
  /\ UNCHANGED tblVars
  /\ UNCHANGED auxVars
  /\ UNCHANGED extVars

\* _scheduledTimeouts.has(id), always false
stillScheduled_never(id) == FALSE

\* _scheduledTimeouts.has(id)
stillScheduled(id) == id \in scheduledTimeouts

\* the setTimeout callback, up to the first module.exports.resume
TimerFire(t) ==
  /\ HostIdle
  /\ t \in DOMAIN hostTimers
  /\ hostTimers[t].st = "armed"
  /\ hostTimers' = [hostTimers EXCEPT ![t].st = "fired"]
  /\ IF resumeGuard = "enter"
       THEN /\ stack' = <<Frame("timer", 0, t, 0, FALSE)>>
            /\ lastOp' = Op("resume", "timer", "entered", "resume", module = NULL, FALSE)
       ELSE /\ stack' = stack
            /\ lastOp' = Op("resume", "timer", resumeGuard, "none", module = NULL, FALSE)
  /\ UNCHANGED <<draft, module, exited, exitResolved, runFutures, exitLog,
                 warnings, scheduledTimeouts, nextCallbackTimeoutID,
                 self_pendingEvent, closure_pendingEvent, wrappers>>
  /\ UNCHANGED tblVars
  /\ UNCHANGED auxVars
  /\ UNCHANGED extVars

\* the setTimeout callback after a module.exports.resume returned, the id gone
ReturnFromTimer ==
  /\ GuestRunning
  /\ Top.by = "timer"
  /\ ~stillScheduled(Top.tid)
  /\ resolveIfExited
  /\ stack' = Pop
  /\ lastOp' = Op("resume", "timer", "returned", "none", FALSE, Top.x)
  /\ UNCHANGED <<draft, module, exited, runFutures, exitLog, warnings,
                 scheduledTimeouts, nextCallbackTimeoutID, hostTimers,
                 self_pendingEvent, closure_pendingEvent, wrappers>>
  /\ UNCHANGED tblVars
  /\ UNCHANGED auxVars
  /\ UNCHANGED extVars

\* the same with the id still registered: the while loop calls resume again
TimerRetry ==
  /\ GuestRunning
  /\ Top.by = "timer"
  /\ stillScheduled(Top.tid)
  /\ resolveIfExited
  /\ IF resumeGuard = "enter"
       THEN /\ stack' = [stack EXCEPT ![Len(stack)].x = FALSE]
            /\ lastOp' = Op("resume", "retry", "entered", "resume", FALSE, Top.x)
       ELSE /\ stack' = Pop
            /\ lastOp' = Op("resume", "retry", resumeGuard, "none", FALSE, Top.x)
  /\ UNCHANGED <<draft, module, exited, runFutures, exitLog, warnings,
                 scheduledTimeouts, nextCallbackTimeoutID, hostTimers,
                 self_pendingEvent, closure_pendingEvent, wrappers>>
  /\ UNCHANGED tblVars
  /\ UNCHANGED auxVars
  /\ UNCHANGED extVars

(***************************************************************************)
(* Claims about the driver.                                                *)
(***************************************************************************)

\* a step in which the driver's resume is called
ResumeCall ==
  \/ \E t \in 1..MaxTimers : TimerFire(t)
  \/ \E k \in FuncIds, r \in Receivers, a \in EventArgs :
       InvokeWrapper(k, r, a) \/ GuestInvokeWrapper(k, r, a)
  \/ TimerRetry

\* the codes of a log that produce a diagnostic
NonZero(log) == SelectSeq(log, LAMBDA c : c # 0)

\* C1: when the guest called runtime.wasmExit while its run export was
\* executing, then as module.run returns the instance is marked exited and the
\* future of that run(args, env) call is resolved.
C1_RunExitResolves ==
  [][(ReturnFromRun /\ Top.x)
       => (exited' /\ exitResolved' /\ runFutures'[Top.fut] = "awaiting")]_vars

\* C2: once the guest has called wasmExit, every later call of resume (timer
\* callback, retry of the timer loop, func-wrapper) raises "already exited"
\* without entering module.resume, and the exited flag never goes back to false.
C2_ResumeAfterExitRaises ==
  [][/\ (exitLog # <<>> /\ ResumeCall)
          => (/\ lastOp'.res = "AlreadyExited"
              /\ lastOp'.exp = "none"
              /\ Len(stack') <= Len(stack))
     /\ (exited => exited')]_vars

\* C3: the exit promise is not resolved in a state where the guest has not
\* called wasmExit (so a run that returned with a timeout pending stays
\* unresolved), and it is resolved when the resume call during which the guest
\* called wasmExit returns.
C3_ResolvedByExitingResume ==
  [][/\ exitResolved => exitLog # <<>>
     /\ exitResolved' => exitLog' # <<>>
     /\ ((ReturnFromTimer \/ TimerRetry \/ ReturnFromWrapper) /\ Top.x)
          => exitResolved']_vars

\* C3 witness: run returned unresolved, a timer fired, the guest called
\* wasmExit during that resume, the resume returned and the future is resolved.
C3_Witness ==
  /\ stack = <<>>
  /\ lastOp.op = "resume" /\ lastOp.by = "timer" /\ lastOp.x
  /\ runFutures = <<"awaiting">>
  /\ exitResolved

\* C4: whatever code the guest passed to wasmExit, every run future that was
\* started is resolved once the guest activations have returned (none is
\* rejected because of the code); the diagnostics are exactly the non-zero codes.
C4_ExitCodeNeverRejects ==
  /\ warnings = NonZero(exitLog)
  /\ (exitLog # <<>> /\ stack = <<>>)
       => \A i \in DOMAIN runFutures :
            \/ runFutures[i] = "NotLoaded"
            \/ runFutures[i] = "awaiting" /\ exitResolved

\* C4 witness: the guest exited with code 1, one diagnostic, the run resolved.
C4_Witness ==
  /\ exitLog = <<1>> /\ warnings = <<1>>
  /\ stack = <<>>
  /\ runFutures = <<"awaiting">> /\ exitResolved

\* C5 as claimed: every driver operation performed before loadModule fails
\* with "module not loaded" and invokes no guest export.
C5_EveryOpNeedsModule ==
  lastOp.early => (lastOp.res = "NotLoaded" /\ lastOp.exp = "none")

\* C5 amended: before loadModule no guest export is ever entered; run, resume,
\* getsp, resetMemoryDataView and a func-wrapper invocation fail with "module
\* not loaded"; exit(code) has no such check and returns normally.
C5_OpsUsingModuleNeedIt ==
  /\ module = NULL => stack = <<>>
  /\ lastOp.early =>
       /\ lastOp.exp = "none"
       /\ lastOp.res = (IF lastOp.op = "exit" THEN "ok" ELSE "NotLoaded")

\* C5 witness: a func-wrapper invoked before loadModule raised the error.
C5_Witness ==
  /\ module = NULL
  /\ lastOp.early /\ lastOp.op = "wrapper" /\ lastOp.res = "NotLoaded"

(***************************************************************************)
(* Part 2: JavaScript values, ref-counts and the linear memory.            *)
(***************************************************************************)

\* an entry of goRefCounts: a number, Infinity, NaN, or a hole of the array
NumC(n) == [k |-> "num", n |-> n]
Infinity == [k |-> "inf", n |-> 0]
NaNC == [k |-> "nan", n |-> 0]
Hole == [k |-> "undefined", n |-> 0]

\* c - 1 and c + 1 in JS arithmetic
Dec(c) == CASE c.k = "num" -> NumC(c.n - 1) [] c.k = "inf" -> c [] OTHER -> NaNC
\* a count that goes up by two
Inc_twice(c) == CASE c.k = "num" -> NumC(c.n + 2) [] c.k = "inf" -> c [] OTHER -> NaNC
Inc(c) == CASE c.k = "num" -> NumC(c.n + 1) [] c.k = "inf" -> c [] OTHER -> NaNC
\* goRefCounts[id] <= 0 in place of === 0
IsZero_atMost(c) == c.k = "num" /\ c.n <= 0

\* goRefCounts[id] === 0
IsZero(c) == c.k = "num" /\ c.n = 0
Positive(c) == c.k = "inf" \/ (c.k = "num" /\ c.n > 0)

\* the seeded table
SeedLen == 7
SeedValues == <<NaN, Num(0), Null, Bool(TRUE), Bool(FALSE), GlobalThis, JsGo>>
SeedCount_one == NumC(1)
SeedCount == Infinity
SeedIds == (Num(0) :> 1) @@ (Null :> 2) @@ (Bool(TRUE) :> 3) @@ (Bool(FALSE) :> 4)
           @@ (GlobalThis :> 5) @@ (JsGo :> 6)

\* the values the guest has the table hold, and everything it stores
RefVals == {Str(1), Obj(1)}
NumVals == {Num(3), Num(-2)}
StoreVals == {Undefined, NaN, Null, Bool(TRUE), Num(0)} \cup NumVals \cup RefVals

\* one value of every type storeValue tells apart
EncVals == StoreVals \cup {Bool(FALSE), GlobalThis, Sym(1), Fun(1)}

\* ids: the seeded ones, one per value, and one that is never allocated
Ids == 0..(SeedLen + Cardinality(RefVals))
Addrs == {8}

RECURSIVE Pow2(_)
Pow2(n) == IF n = 0 THEN 1 ELSE 2 * Pow2(n - 1)

RECURSIVE Log2(_)
Log2(n) == IF n < 2 THEN 0 ELSE 1 + Log2(n \div 2)

Abs(i) == IF i < 0 THEN -i ELSE i

\* DataView.setUint32(addr + off, w, true) on the slot at addr
LE4(w) == <<w % 256, (w \div 256) % 256, (w \div 65536) % 256, (w \div 16777216) % 256>>

setUint32(m, addr, off, w) ==
  [m EXCEPT ![addr] = [i \in 1..8 |-> IF i \in (off + 1)..(off + 4) THEN LE4(w)[i - off] ELSE @[i]]]

\* DataView.getUint32(addr + off, true)
getUint32(m, addr, off) ==
  LET b == m[addr] IN
  b[off + 1] + 256 * b[off + 2] + 65536 * b[off + 3] + 16777216 * b[off + 4]

\* the IEEE-754 binary64 image of a number, least significant byte first
\* (integers below 2^20 in magnitude: the fraction fits the top 20 bits)
EncodeFloat64(v) ==
  IF v.k = "nan" THEN <<0, 0, 0, 0, 0, 0, 248, 127>>
  ELSE IF v.k = "inf" THEN <<0, 0, 0, 0, 0, 0, 240, (IF v.n < 0 THEN 255 ELSE 127)>>
  ELSE IF v.n = 0 THEN <<0, 0, 0, 0, 0, 0, 0, 0>>
  ELSE LET a == Abs(v.n)
           e == Log2(a)
           expo == 1023 + e
           frac == (a - Pow2(e)) * Pow2(20 - e)
           sign == IF v.n < 0 THEN 1 ELSE 0
       IN <<0, 0, 0, 0, frac % 256, (frac \div 256) % 256,
            (expo % 16) * 16 + frac \div 65536, sign * 128 + expo \div 16>>

\* the number an 8-byte image denotes
DecodeFloat64(b) ==
  LET sign == b[8] \div 128
      expo == (b[8] % 128) * 16 + b[7] \div 16
      fracHi == (b[7] % 16) * 65536 + b[6] * 256 + b[5]
      fracLo0 == b[1] = 0 /\ b[2] = 0 /\ b[3] = 0 /\ b[4] = 0
      e == expo - 1023
  IN IF expo = 2047
       THEN IF fracHi = 0 /\ fracLo0 THEN Infinite(IF sign = 1 THEN -1 ELSE 1) ELSE NaN
     ELSE IF expo = 0
       THEN IF fracHi = 0 /\ fracLo0 THEN Num(0) ELSE OtherNum
     ELSE IF e >= 0 /\ e <= 20 /\ fracLo0 /\ fracHi % Pow2(20 - e) = 0
       THEN Num((IF sign = 1 THEN -1 ELSE 1) * (Pow2(e) + fracHi \div Pow2(20 - e)))
     ELSE OtherNum

setFloat64(m, addr, v) == [m EXCEPT ![addr] = EncodeFloat64(v)]
getFloat64(m, addr) == DecodeFloat64(m[addr])

\* values[id], and values[id] = v
valueAt(id) == IF id < Len(values) THEN values[id + 1] ELSE Undefined

setIndex(arr, id, v) ==
  [i \in 1..(IF id + 1 > Len(arr) THEN id + 1 ELSE Len(arr)) |->
     IF i = id + 1 THEN v ELSE IF i <= Len(arr) THEN arr[i] ELSE Undefined]

\* a delete that leaves the entry in the map
mapDelete_none(map, v) == map

\* ids.delete(v)
mapDelete(map, v) == [k \in DOMAIN map \ {v} |-> map[k]]

(***************************************************************************)
(* The value table: loadValue, storeValue, removeRef.                      *)
(***************************************************************************)

nanHead == 2146959360

loadValue_highWord(addr) ==
  LET f == getFloat64(mem, addr) IN
  IF f = Num(0) THEN Undefined
  ELSE IF f.k # "nan" THEN f
  ELSE valueAt(getUint32(mem, addr, 4) - nanHead)

loadValue(addr) ==
  LET f == getFloat64(mem, addr) IN
  IF f = Num(0) THEN Undefined
  ELSE IF f.k # "nan" THEN f
  ELSE valueAt(getUint32(mem, addr, 0))

typeFlag_nullIsObject(v) ==
  CASE v.t = "object" -> 1
    [] v.t = "string" -> 2
    [] v.t = "symbol" -> 3
    [] v.t = "function" -> 4
    [] OTHER -> 0

typeFlag(v) ==
  CASE v.t = "object" /\ v # Null -> 1
    [] v.t = "string" -> 2
    [] v.t = "symbol" -> 3
    [] v.t = "function" -> 4
    [] OTHER -> 0

\* an allocation that always takes the next index past the table end
allocId_append == Len(values)

\* the id storeValue gives a value that is not in the inverse map:
\* idPool.pop(), or values.length when the free-list is empty
allocId == IF idPool # <<>> THEN idPool[Len(idPool)] ELSE Len(values)

\* whether storeValue(addr, v) goes through the table
Boxed(v) == ~(v.t = "number" /\ v # Num(0)) /\ v # Undefined

storeValue(addr, v) ==
  IF v.t = "number" /\ v # Num(0)
    THEN /\ mem' = IF v.k = "nan"
                     THEN setUint32(setUint32(mem, addr, 4, nanHead), addr, 0, 0)
                     ELSE setFloat64(mem, addr, v)
         /\ UNCHANGED <<values, goRefCounts, ids, idPool>>
  ELSE IF v = Undefined
    THEN /\ mem' = setFloat64(mem, addr, Num(0))
         /\ UNCHANGED <<values, goRefCounts, ids, idPool>>
  ELSE LET known == v \in DOMAIN ids
           id == IF known THEN ids[v] ELSE allocId
       IN /\ idPool' = IF known \/ idPool = <<>> THEN idPool
                       ELSE SubSeq(idPool, 1, Len(idPool) - 1)
          /\ values' = IF known THEN values ELSE setIndex(values, id, v)
          /\ goRefCounts' = [goRefCounts EXCEPT ![id] = Inc(IF known THEN @ ELSE NumC(0))]
          /\ ids' = IF known THEN ids ELSE (v :> id) @@ ids
          \* nanHead | typeFlag: the low bits of nanHead are zero
          /\ mem' = setUint32(setUint32(mem, addr, 4, nanHead + typeFlag(v)), addr, 0, id)

removeRef_keepsInverse(id) ==
  LET c == Dec(goRefCounts[id]) IN
  /\ goRefCounts' = [goRefCounts EXCEPT ![id] = c]
  /\ IF IsZero(c)
       THEN /\ values' = setIndex(values, id, Null)
            /\ ids' = ids
            /\ idPool' = Append(idPool, id)
       ELSE UNCHANGED <<values, ids, idPool>>

removeRef_atMostZero(id) ==
  LET c == Dec(goRefCounts[id]) IN
  /\ goRefCounts' = [goRefCounts EXCEPT ![id] = c]
  /\ IF c.k = "num" /\ c.n <= 0
       THEN /\ values' = setIndex(values, id, Null)
            /\ ids' = mapDelete(ids, valueAt(id))
            /\ idPool' = Append(idPool, id)
       ELSE UNCHANGED <<values, ids, idPool>>

removeRef_keepsSlot(id) ==
  LET c == Dec(goRefCounts[id]) IN
  /\ goRefCounts' = [goRefCounts EXCEPT ![id] = c]
  /\ IF IsZero(c)
       THEN /\ values' = values
            /\ ids' = mapDelete(ids, valueAt(id))
            /\ idPool' = Append(idPool, id)
       ELSE UNCHANGED <<values, ids, idPool>>

removeRef(id) ==
  LET c == Dec(goRefCounts[id]) IN
  /\ goRefCounts' = [goRefCounts EXCEPT ![id] = c]
  /\ IF IsZero(c)
       THEN /\ values' = setIndex(values, id, Null)
            /\ ids' = mapDelete(ids, valueAt(id))
            /\ idPool' = Append(idPool, id)
       ELSE UNCHANGED <<values, ids, idPool>>

\* a value as a host call hands it to storeValue: its type, its content (the
\* text of a string, the structure of an object) and which allocation it is
HostVal(t, text, ref) == [t |-> t, text |-> text, ref |-> ref]

NoHost == HostVal("none", 0, 0)

\* two strings of the same text and two objects of the same structure
HostVals == {HostVal(t, 1, r) : t \in {"string", "object"}, r \in 1..2}

\* the value as the inverse map sees it: Map compares keys by SameValueZero,
\* a string by its text and an object by which object it is
jsValue_byContent(h) == IF h.t = "string" THEN Str(h.text) ELSE Obj(h.text)

jsValue(h) == IF h.t = "string" THEN Str(h.text) ELSE Obj(h.ref)

TblOp(op, addr, v, id, alloc) ==
  [op |-> op, addr |-> addr, v |-> v, id |-> id, alloc |-> alloc]

\* no setInt64 / getInt64 call yet
NoInt64 == [op |-> "none", addr |-> 0, v |-> 0, r |-> 0]

\* no storeArguments call yet
NoArgCall ==
  [args |-> <<>>, env |-> <<>>, argc |-> 0, argv |-> 0, ptrs |-> <<>>,
   offset |-> 0, hi |-> 0, ok |-> FALSE, called |-> FALSE]

\* no reflective import in progress
NoImport ==
  [imp |-> "none", stage |-> "idle", sp0 |-> 0, addr |-> 0, threw |-> FALSE,
   v |-> Undefined, m0 |-> <<>>, n |-> 0]

\* a host value: its class and, for an array, its elements
HostArr(kind, bytes) == [kind |-> kind, bytes |-> bytes]

\* no copyBytes call yet
NoCopy == [op |-> "none", len |-> 0, h |-> HostArr("undefined", <<>>)]

\* no member of fs or process called yet; cb: the calls of the callback
NoSys ==
  [op |-> "none", fd |-> 0, cb |-> <<>>, ret |-> 0, returned |-> FALSE,
   threw |-> "none"]

\* no access through the memory buffer yet; cap: the buffer module.exports.mem
\* exposed when loadModule or resetMemoryDataView last rebound the view
NoView == [op |-> "none", buf |-> 0, threw |-> FALSE, cap |-> 0]

\* runtime.walltime not called yet
NoWall == [called |-> FALSE, msec |-> 0, sp |-> 0]

\* outputBuf = "" and nothing logged; the instance's memory has its first
\* buffer, which the view wraps once loadModule has run
InitIo(loaded) ==
  /\ outputBuf = <<>>
  /\ sink = <<>>
  /\ writes = <<>>
  /\ sysOp = NoSys
  /\ exportsBuf = 1
  /\ dataViewBuf = IF loaded THEN 1 ELSE 0
  /\ viewOp = [NoView EXCEPT !.cap = IF loaded THEN 1 ELSE 0]
  /\ wallOp = NoWall

\* no import called yet, the guest on its first stack
InitExt ==
  /\ sp = 64
  /\ impCall = NoImport
  /\ hostArr = HostArr("undefined", <<>>)
  /\ copyOp = NoCopy

InitAux ==
  /\ InitExt
  /\ InitIo(FALSE)
  /\ origin = [i \in Ids |-> NoHost]
  /\ hostOp = NoHost
  /\ argCall = NoArgCall
  /\ int64Op = NoInt64
  /\ guestEvent = NoEvent

InitValues ==
  /\ values = SeedValues
  /\ goRefCounts = [i \in Ids |-> IF i < SeedLen THEN SeedCount ELSE Hole]
  /\ ids = SeedIds
  /\ idPool = <<>>
  /\ held = [i \in Ids |-> 0]
  /\ wellBehaved = TRUE
  /\ tblOp = TblOp("none", 0, Undefined, 0, FALSE)

InitTable ==
  /\ mem = [a \in Addrs |-> <<0, 0, 0, 0, 0, 0, 0, 0>>]
  /\ InitValues

\* an import storing a value for the guest (stringVal, valueGet, ...)
StoreValue(addr, v) ==
  /\ GuestRunning
  /\ (Boxed(v) /\ v \notin DOMAIN ids) => allocId \in Ids
  /\ (v \in DOMAIN ids /\ goRefCounts[ids[v]].k = "num") => goRefCounts[ids[v]].n < MaxRefs
  /\ storeValue(addr, v)
  /\ LET id == IF v = NaN THEN 0 ELSE IF Boxed(v) THEN ids'[v] ELSE 0 IN
     /\ held' = IF Boxed(v) /\ id >= SeedLen THEN [held EXCEPT ![id] = @ + 1] ELSE held
     /\ tblOp' = TblOp("store", addr, v, id, Boxed(v) /\ v \notin DOMAIN ids)
  /\ UNCHANGED wellBehaved
  /\ UNCHANGED drvVars
  /\ UNCHANGED auxVars
  /\ UNCHANGED extVars

\* an import storing the value a host call just produced: the string that
\* loadString decoded for stringVal, the object of valueNew or valueGet
StoreHostValue(addr, h) ==
  /\ GuestRunning
  /\ LET v == jsValue(h) IN
     /\ (v \in DOMAIN ids /\ goRefCounts[ids[v]].k = "num") => goRefCounts[ids[v]].n < MaxRefs
     /\ storeValue(addr, v)
     /\ held' = [held EXCEPT ![ids'[v]] = @ + 1]
     /\ tblOp' = TblOp("store", addr, v, ids'[v], v \notin DOMAIN ids)
     /\ origin' = IF v \in DOMAIN ids THEN origin ELSE [origin EXCEPT ![ids'[v]] = h]
  /\ hostOp' = h
  /\ UNCHANGED <<wellBehaved, argCall, int64Op, guestEvent>>
  /\ UNCHANGED extVars
  /\ UNCHANGED drvVars

\* syscall/js.finalizeRef(sp)
FinalizeRef(id) ==
  /\ GuestRunning
  /\ goRefCounts[id].k = "num" => goRefCounts[id].n > -MaxOver
  /\ removeRef(id)
  /\ held' = [held EXCEPT ![id] = IF @ > 0 THEN @ - 1 ELSE 0]
  /\ wellBehaved' = (wellBehaved /\ (id < SeedLen \/ held[id] > 0))
  /\ tblOp' = TblOp("remove", 0, valueAt(id), id, FALSE)
  /\ origin' = IF IsZero(Dec(goRefCounts[id])) THEN [origin EXCEPT ![id] = NoHost]
                ELSE origin
  /\ hostOp' = NoHost
  /\ UNCHANGED <<argCall, int64Op, guestEvent>>
  /\ UNCHANGED extVars
  /\ UNCHANGED mem
  /\ UNCHANGED drvVars

\* an import reading an operand of the guest
LoadValue(addr) ==
  /\ GuestRunning
  /\ tblOp' = TblOp("load", addr, loadValue(addr), 0, FALSE)
  /\ UNCHANGED <<mem, values, goRefCounts, ids, idPool, held, wellBehaved>>
  /\ UNCHANGED drvVars
  /\ UNCHANGED auxVars
  /\ UNCHANGED extVars

NextRefs ==
  \/ \E addr \in Addrs, v \in StoreVals : StoreValue(addr, v)
  \/ \E id \in Ids : FinalizeRef(id)

NextEnc == \E addr \in Addrs, v \in EncVals : StoreValue(addr, v)

NextKeys ==
  \/ \E addr \in Addrs, h \in HostVals : StoreHostValue(addr, h)
  \/ \E id \in Ids : FinalizeRef(id)

(***************************************************************************)
(* Part 3: storeArguments and run(args, env).                              *)
(***************************************************************************)

\* strings are sequences of UTF-16 code units
Js == <<106, 115>>                   \* "js"
Eacute == <<233>>                    \* one code unit, two bytes of UTF-8
LongLen == 8144
Long == [i \in 1..LongLen |-> 120]   \* "xxx...x"

Hello == <<104, 101, 108, 108, 111>>  \* "hello"

Texts == {Js, Eacute, Hello}
EnvKeys == {<<66>>, <<65>>, <<65, 66>>}   \* "B", "A", "AB"
EnvVal == <<49>>                          \* "1"

\* args: lists of at most two short strings, and two that fill the window
ArgLists ==
  {<<>>} \cup {<<a>> : a \in Texts} \cup {<<a, b>> : a, b \in Texts}
         \cup {<<Long>>, <<Long, Js>>}

\* env: an object as the list of its entries in insertion order
Envs ==
  {<<>>} \cup {<<<<k, EnvVal>>>> : k \in EnvKeys}
         \cup {<<<<k, EnvVal>>, <<l, EnvVal>>>> :
                   <<k, l>> \in {p \in EnvKeys \X EnvKeys : p[1] # p[2]}}

\* what main.ts passes: run(["js"], {})
MainArgs == <<Js>>
MainEnv == <<>>

\* TextEncoder.encode on code units below 0x800 (no surrogates)
Utf8Unit(c) == IF c < 128 THEN <<c>> ELSE <<192 + (c \div 64), 128 + (c % 64)>>

RECURSIVE encode(_)
encode(s) ==
  IF Len(s) = 0 THEN <<>>
  ELSE IF Len(s) = 1 THEN Utf8Unit(s[1])
  ELSE LET h == Len(s) \div 2 IN
       encode(SubSeq(s, 1, h)) \o encode(SubSeq(s, h + 1, Len(s)))

\* a < b as Array.prototype.sort compares strings, by code unit
RECURSIVE StrLess(_, _)
StrLess(a, b) ==
  IF Len(b) = 0 THEN FALSE
  ELSE IF Len(a) = 0 THEN TRUE
  ELSE IF a[1] # b[1] THEN a[1] < b[1]
  ELSE StrLess(Tail(a), Tail(b))

\* Object.keys(env) and Object.keys(env).sort()
ObjectKeys(env) == [i \in 1..Len(env) |-> env[i][1]]

RECURSIVE insertKey(_, _)
insertKey(sorted, k) ==
  IF sorted = <<>> THEN <<k>>
  ELSE IF StrLess(k, Head(sorted)) THEN <<k>> \o sorted
  ELSE <<Head(sorted)>> \o insertKey(Tail(sorted), k)

RECURSIVE sort(_)
sort_insertionOrder(keys) == keys

sort(keys) ==
  IF keys = <<>> THEN <<>>
  ELSE insertKey(sort(SubSeq(keys, 1, Len(keys) - 1)), keys[Len(keys)])

\* env[key]
envGet(env, key) == LET i == CHOOSE j \in 1..Len(env) : env[j][1] = key IN env[i][2]

\* the memory holds the slots something was written to; any other slot is zero
zeroSlot == <<0, 0, 0, 0, 0, 0, 0, 0>>
slotAt(m, a) == IF a \in DOMAIN m THEN m[a] ELSE zeroSlot
touch(m, a) == IF a \in DOMAIN m THEN m ELSE (a :> zeroSlot) @@ m

\* new Uint8Array(buffer, ptr, bytes.length).set(bytes), ptr a multiple of 8
setBytes(m, ptr, bytes) ==
  LET slots == {ptr + 8 * j : j \in 0..((Len(bytes) - 1) \div 8)} IN
  [a \in slots |-> [i \in 1..8 |-> IF a - ptr + i <= Len(bytes) THEN bytes[a - ptr + i]
                                    ELSE slotAt(m, a)[i]]] @@ m

argBase == 4096
wasmMinDataAddr == 4096 + 8192

\* strPtr(str) on the state of storeArguments: offset, memory, argvPtrs, and
\* the end of the last byte range written
strPtr(st, str) ==
  LET bytes == encode(str) \o <<0>>
      end == st.offset + Len(bytes)
  IN [offset |-> IF end % 8 # 0 THEN end + (8 - (end % 8)) ELSE end,
      m |-> setBytes(st.m, st.offset, bytes),
      ptrs |-> Append(st.ptrs, st.offset),
      hi |-> end]

\* strs.forEach((s) => argvPtrs.push(strPtr(s)))
RECURSIVE pushStrings(_, _)
pushStrings(st, strs) ==
  IF strs = <<>> THEN st
  ELSE pushStrings(strPtr(st, Head(strs)), Tail(strs))

\* argvPtrs.forEach: two 32-bit words per pointer
RECURSIVE writePtrs(_, _)
writePtrs(st, ptrs) ==
  IF ptrs = <<>> THEN st
  ELSE writePtrs([st EXCEPT
                    !.m = setUint32(setUint32(touch(st.m, st.offset), st.offset, 0, Head(ptrs)),
                                    st.offset, 4, 0),
                    !.offset = st.offset + 8,
                    !.hi = st.offset + 8],
                 Tail(ptrs))

\* the limit check at the end of storeArguments
overLimit_strict(offset) == offset > wasmMinDataAddr

overLimit(offset) == offset >= wasmMinDataAddr

\* storeArguments(args, env) on memory m: what it returns (argc, argv), whether
\* it returned or threw, and the memory and final offset it leaves
storeArguments(m, args, env) ==
  LET s0 == [offset |-> argBase, m |-> m, ptrs |-> <<>>, hi |-> argBase]
      s1 == pushStrings(s0, args)
      s1z == [s1 EXCEPT !.ptrs = Append(@, 0)]
      keys == sort(ObjectKeys(env))
      s2 == pushStrings(s1z, [i \in 1..Len(keys) |-> keys[i] \o <<61>> \o envGet(env, keys[i])])
      s2z == [s2 EXCEPT !.ptrs = Append(@, 0)]
      s3 == writePtrs(s2z, s2z.ptrs)
  IN [args |-> args, env |-> env,
      argc |-> Len(args), argv |-> s2z.offset, ptrs |-> s2z.ptrs,
      m |-> s3.m, offset |-> s3.offset, hi |-> s3.hi,
      ok |-> ~overLimit(s3.offset)]

ArgCall(r) ==
  [args |-> r.args, env |-> r.env, argc |-> r.argc, argv |-> r.argv, ptrs |-> r.ptrs,
   offset |-> r.offset, hi |-> r.hi, ok |-> r.ok, called |-> TRUE]

\* run(args, env) up to the call of module.exports.run
Run(args, env) ==
  /\ HostIdle
  /\ Len(runFutures) < MaxRuns
  /\ IF moduleGuard = "NotLoaded"
       THEN /\ runFutures' = Append(runFutures, "NotLoaded")
            /\ lastOp' = Op("run", "host", "NotLoaded", "none", TRUE, FALSE)
            /\ UNCHANGED <<stack, mem, argCall>>
       ELSE LET r == storeArguments(mem, args, env) IN
            /\ mem' = r.m
            /\ argCall' = ArgCall(r)
            /\ IF r.ok
                 THEN /\ runFutures' = Append(runFutures, "running")
                      /\ stack' = <<Frame("run", Len(runFutures) + 1, 0, 0, FALSE)>>
                      /\ lastOp' = Op("run", "host", "entered", "run", module = NULL, FALSE)
                 ELSE /\ runFutures' = Append(runFutures, "ArgumentOverflow")
                      /\ stack' = stack
                      /\ lastOp' = Op("run", "host", "ArgumentOverflow", "none",
                                      module = NULL, FALSE)
  /\ UNCHANGED <<draft, module, exited, exitResolved, exitLog, warnings,
                 scheduledTimeouts, nextCallbackTimeoutID, hostTimers,
                 self_pendingEvent, closure_pendingEvent, wrappers>>
  /\ UNCHANGED <<values, goRefCounts, ids, idPool, held, wellBehaved, tblOp>>
  /\ UNCHANGED <<origin, hostOp, int64Op, guestEvent>>
  /\ UNCHANGED extVars

NextArgs ==
  \/ LoadModule
  \/ \E args \in ArgLists, env \in Envs : Run(args, env)

(***************************************************************************)
(* Part 4: 64-bit integers in memory.                                      *)
(***************************************************************************)

\* an integer-valued JS number: its sign and its magnitude as 8 bytes, least
\* significant first (TLC's integers end at 2^31)
Int64(neg, mag) == [neg |-> neg, mag |-> mag]

\* low + high * 4294967296 of 2^53 or more in magnitude: rounded to 53 bits
Rounded == [neg |-> FALSE, mag |-> <<>>]

\* the integers below 2^53 in magnitude with bytes 0, 1 or 255 (31 at the top)
Int53 ==
  {Int64(s, <<b[1], b[2], b[3], b[4], b[5], b[6], t, 0>>) :
     s \in BOOLEAN, b \in [1..6 -> {0, 1, 255}], t \in {0, 1, 31}}
  \ {Int64(TRUE, <<0, 0, 0, 0, 0, 0, 0, 0>>)}

allZero(b) == \A i \in 1..Len(b) : b[i] = 0

\* b + 1 and -b modulo 256^Len(b)
RECURSIVE incBytes(_)
incBytes(b) ==
  IF b = <<>> THEN <<>>
  ELSE IF b[1] = 255 THEN <<0>> \o incBytes(Tail(b))
  ELSE <<b[1] + 1>> \o Tail(b)

negBytes(b) == incBytes([i \in 1..Len(b) |-> 255 - b[i]])

\* ToUint32(v) as DataView.setUint32 applies it, as 4 bytes
ToUint32(v) ==
  LET low == SubSeq(v.mag, 1, 4) IN IF v.neg THEN negBytes(low) ELSE low

\* Math.floor(v / 4294967296)
floorDiv2p32(v) ==
  LET high == SubSeq(v.mag, 5, 8)
      low == SubSeq(v.mag, 1, 4)
      zero4 == <<0, 0, 0, 0>>
  IN IF ~v.neg THEN Int64(FALSE, high \o zero4)
     ELSE IF allZero(low) THEN Int64(~allZero(high), high \o zero4)
     ELSE Int64(TRUE, incBytes(high) \o zero4)

\* DataView.setUint32(addr + off, w, true) for a word given as 4 bytes
setWord(m, addr, off, w) ==
  [m EXCEPT ![addr] = [i \in 1..8 |-> IF i \in (off + 1)..(off + 4) THEN w[i - off] ELSE @[i]]]

setInt64(m, addr, v) ==
  setWord(setWord(m, addr, 0, ToUint32(v)), addr, 4, ToUint32(floorDiv2p32(v)))

\* getInt64: the low word unsigned, the high word getInt32; the variant reads it with getUint32
highIsNegative_never(b) == FALSE

highIsNegative(b) == b[8] >= 128

below2p53(mag) == mag[8] = 0 /\ mag[7] < 32

getInt64(m, addr) ==
  LET b == m[addr]
      mag == IF highIsNegative(b) THEN negBytes(b) ELSE b
  IN IF below2p53(mag) THEN Int64(highIsNegative(b), mag) ELSE Rounded

\* an import writing a 64-bit result (valueLength, nanotime1, copyBytesToGo)
SetInt64(addr) ==
  /\ GuestRunning
  /\ int64Op.op = "arg"
  /\ mem' = setInt64(mem, addr, int64Op.v)
  /\ int64Op' = [int64Op EXCEPT !.op = "set", !.addr = addr]
  /\ UNCHANGED <<values, goRefCounts, ids, idPool, held, wellBehaved, tblOp>>
  /\ UNCHANGED <<origin, hostOp, argCall, guestEvent>>
  /\ UNCHANGED extVars
  /\ UNCHANGED drvVars

\* an import reading a 64-bit operand (wasmWrite, scheduleTimeoutEvent, valueIndex)
GetInt64(addr) ==
  /\ GuestRunning
  /\ int64Op.op = "set" /\ int64Op.addr = addr
  /\ int64Op' = [int64Op EXCEPT !.op = "get", !.r = getInt64(mem, addr)]
  /\ UNCHANGED tblVars
  /\ UNCHANGED <<origin, hostOp, argCall, guestEvent>>
  /\ UNCHANGED extVars
  /\ UNCHANGED drvVars

NextInt64 ==
  \/ \E addr \in Addrs : SetInt64(addr)
  \/ \E addr \in Addrs : GetInt64(addr)

\* DataView.setInt32(addr + off, w, true) of a number in 0..2^31 - 1, which
\* ToInt32 leaves as it is
setInt32(m, addr, off, w) == setUint32(m, addr, off, w)

\* readings of new Date().getTime(): the milliseconds around the start, the
\* middle and the turn of a second, the turn of a day, and the greatest the
\* model's integers hold
Clock ==
  (0..20) \cup (490..510) \cup (990..1010)
    \cup {1999, 2000, 86399999, 86400000, 2147483647}

\* the integer part of msec / 1000 rounded to nearest instead of truncated
truncated_round(msec, d) == (msec + d \div 2) \div d

\* msec / d is a number with a fraction; setUint32 converts it by ToUint32,
\* which drops the fraction, and Math.floor(v / 4294967296) does the same for
\* a number that is not negative
truncated(msec, d) == msec \div d

\* runtime.walltime(sp): seconds as int64 at sp + 8, nanoseconds as int32 at
\* sp + 16
WallTime(msec) ==
  /\ GuestRunning
  /\ LET sec == Int64(FALSE, LE4(truncated(msec, 1000)) \o <<0, 0, 0, 0>>) IN
     mem' = setInt32(setInt64(mem, sp + 8, sec), sp + 16, 0, (msec % 1000) * 1000000)
  /\ wallOp' = [called |-> TRUE, msec |-> msec, sp |-> sp]
  /\ UNCHANGED <<values, goRefCounts, ids, idPool, held, wellBehaved, tblOp>>
  /\ UNCHANGED <<drvVars, auxVars, impVars, cpyVars, sysVars, viewVars>>

NextWall == \E msec \in Clock : WallTime(msec)

(***************************************************************************)
(* Reflective imports: valueGet, valueIndex, valueCall, valueInvoke,       *)
(* valueNew.  The reflective operation may run guest code (a getter or a   *)
(* callee that is a func-wrapper), and that code may move the guest stack. *)
(***************************************************************************)

\* the guest's SP before and after a goroutine switched to a new stack
SpVals == {64, 256}

Imports == {"valueGet", "valueIndex", "valueCall", "valueInvoke", "valueNew"}

\* what the target of a reflective operation returns, and what it throws
CallResults == {Undefined, Num(3), Obj(1)}
Err == Val("object", "error", 1)

\* the offset of the result slot from sp
resultOffset(imp) ==
  CASE imp = "valueGet" -> 32
    [] imp = "valueIndex" -> 24
    [] imp = "stringVal" -> 24
    [] imp = "valuePrepareString" -> 16
    [] imp = "valueCall" -> 56
    [] OTHER -> 40

\* the offset of the success byte from sp
okOffset(imp) == IF imp = "valueCall" THEN 64 ELSE 48

\* the imports that run their reflective operation inside try / catch
catches_never(imp) == FALSE

catches(imp) == imp \in {"valueCall", "valueInvoke", "valueNew"}

\* the imports with "sp = instance.getsp() >>> 0" before they write
rereadsSp_never(imp) == FALSE

rereadsSp(imp) == imp \in {"valueGet", "valueCall", "valueInvoke", "valueNew"}

\* DataView.setUint8(addr, b)
setUint8(m, addr, b) ==
  [m EXCEPT ![addr - (addr % 8)] = [@ EXCEPT ![(addr % 8) + 1] = b]]

\* the slots the imports write for a stack pointer
stackSlots(s) == {s + resultOffset(imp) : imp \in Imports} \cup {s + okOffset(imp) : imp \in Imports}

\* the guest calls the import: the operands are loaded relative to the sp of
\* the call and the reflective operation starts
ImportEnter(imp) ==
  /\ GuestRunning
  /\ impCall.stage \in {"idle", "done"}
  /\ impCall.n < MaxCalls
  /\ impCall' = [NoImport EXCEPT !.imp = imp, !.stage = "calling", !.sp0 = sp,
                                 !.m0 = mem, !.n = impCall.n + 1]
  /\ UNCHANGED sp
  /\ UNCHANGED <<cpyVars, ioVars>>
  /\ UNCHANGED drvVars
  /\ UNCHANGED tblVars
  /\ UNCHANGED auxVars

\* guest code run by the reflective operation moves the stack: getsp() changes
GuestMoveStack(s) ==
  /\ GuestRunning
  /\ impCall.stage = "calling"
  /\ s # sp
  /\ sp' = s
  /\ UNCHANGED impCall
  /\ UNCHANGED <<cpyVars, ioVars>>
  /\ UNCHANGED drvVars
  /\ UNCHANGED tblVars
  /\ UNCHANGED auxVars

\* the reflective operation returned v or threw: the import stores the result
\* or the error, or the exception leaves an import that has no catch
ImportStore(threw, v) ==
  /\ GuestRunning
  /\ impCall.stage = "calling"
  /\ LET imp == impCall.imp
         x == IF threw THEN Err ELSE v
         base == IF rereadsSp(imp) THEN sp ELSE impCall.sp0
         addr == base + resultOffset(imp)
     IN IF threw /\ ~catches(imp)
          THEN /\ impCall' = [impCall EXCEPT !.stage = "trapped", !.threw = TRUE]
               /\ UNCHANGED tblVars
          ELSE /\ (Boxed(x) /\ x \notin DOMAIN ids) => allocId \in Ids
               /\ (x \in DOMAIN ids /\ goRefCounts[ids[x]].k = "num")
                     => goRefCounts[ids[x]].n < MaxRefs
               /\ storeValue(addr, x)
               /\ held' = IF Boxed(x) /\ ids'[x] >= SeedLen
                            THEN [held EXCEPT ![ids'[x]] = @ + 1] ELSE held
               /\ tblOp' = TblOp("store", addr, x, IF Boxed(x) THEN ids'[x] ELSE 0,
                                 Boxed(x) /\ x \notin DOMAIN ids)
               /\ UNCHANGED wellBehaved
               /\ impCall' = [impCall EXCEPT
                                !.stage = IF catches(imp) THEN "stored"
                                          ELSE IF imp = "valuePrepareString" THEN "sizing"
                                          ELSE "done",
                                !.addr = addr, !.threw = threw, !.v = x]
  /\ UNCHANGED sp
  /\ UNCHANGED <<cpyVars, ioVars>>
  /\ UNCHANGED drvVars
  /\ UNCHANGED auxVars

\* setUint8(sp + 64 | 48, 1 | 0) with the sp the import re-read
ImportOk ==
  /\ GuestRunning
  /\ impCall.stage = "stored"
  /\ mem' = setUint8(mem, impCall.addr - resultOffset(impCall.imp) + okOffset(impCall.imp),
                     IF impCall.threw THEN 0 ELSE 1)
  /\ impCall' = [impCall EXCEPT !.stage = "done"]
  /\ UNCHANGED <<values, goRefCounts, ids, idPool, held, wellBehaved, tblOp>>
  /\ UNCHANGED sp
  /\ UNCHANGED <<cpyVars, ioVars>>
  /\ UNCHANGED drvVars
  /\ UNCHANGED auxVars

\* valuePrepareString after its storeValue: setInt64(sp + 24, str.length)
ImportSize(n) ==
  /\ GuestRunning
  /\ impCall.stage = "sizing"
  /\ mem' = setInt64(mem, impCall.sp0 + 24, Int64(FALSE, <<n, 0, 0, 0, 0, 0, 0, 0>>))
  /\ impCall' = [impCall EXCEPT !.stage = "done"]
  /\ UNCHANGED <<values, goRefCounts, ids, idPool, held, wellBehaved, tblOp>>
  /\ UNCHANGED sp
  /\ UNCHANGED <<cpyVars, ioVars>>
  /\ UNCHANGED drvVars
  /\ UNCHANGED auxVars

NextImports ==
  \/ \E imp \in Imports : ImportEnter(imp)
  \/ \E s \in SpVals : GuestMoveStack(s)
  \/ \E threw \in BOOLEAN, v \in CallResults : ImportStore(threw, v)
  \/ ImportOk

(***************************************************************************)
(* copyBytesToGo and copyBytesToJS.                                        *)
(***************************************************************************)

MaxLen == 3         \* bytes of a slice of the guest and of a host array

\* where the backing array of the guest's slice is
sliceAddr == 512

\* what the backing array holds at first
GuestBytes == [i \in 1..MaxLen |-> 10 + i]

\* the host values handed to the imports: arrays of up to MaxLen elements
HostBytes == [i \in 1..MaxLen |-> 20 + i]
HostArrs ==
  {HostArr(k, SubSeq(HostBytes, 1, n)) :
     k \in {"Uint8Array", "Uint8ClampedArray", "Array"}, n \in 0..MaxLen}
  \cup {HostArr("undefined", <<>>)}

\* src instanceof Uint8Array || src instanceof Uint8ClampedArray, always true
isByteArray_any(h) == TRUE

\* src instanceof Uint8Array || src instanceof Uint8ClampedArray
isByteArray(h) == h.kind \in {"Uint8Array", "Uint8ClampedArray"}

\* TypedArray.subarray(0, end)
subarray(s, end) == SubSeq(s, 1, IF end < Len(s) THEN end ELSE Len(s))

\* TypedArray.set(src) for a source that fits
set(dst, src) == [i \in 1..Len(dst) |-> IF i <= Len(src) THEN src[i] ELSE dst[i]]

\* the bytes of loadSlice for a slice of n bytes at sliceAddr
sliceBytes(m, n) == SubSeq(m[sliceAddr], 1, n)

\* the memory with the bytes of that slice replaced
withSlice(m, bytes) ==
  [m EXCEPT ![sliceAddr] = [i \in 1..8 |-> IF i <= Len(bytes) THEN bytes[i] ELSE @[i]]]

\* a small count as setInt64 takes it
Count(n) == Int64(FALSE, <<n, 0, 0, 0, 0, 0, 0, 0>>)

\* syscall/js.copyBytesToGo(sp): dst the guest's slice of n bytes, src the
\* host value h
CopyBytesToGo(n, h) ==
  /\ GuestRunning
  /\ LET dst == sliceBytes(mem, n) IN
     IF ~isByteArray(h)
       THEN mem' = setUint8(mem, sp + 48, 0)
       ELSE LET toCopy == subarray(h.bytes, Len(dst)) IN
            mem' = setUint8(setInt64(withSlice(mem, set(dst, toCopy)),
                                     sp + 40, Count(Len(toCopy))),
                            sp + 48, 1)
  /\ hostArr' = h
  /\ copyOp' = [op |-> "toGo", len |-> n, h |-> h]
  /\ UNCHANGED <<values, goRefCounts, ids, idPool, held, wellBehaved, tblOp>>
  /\ UNCHANGED <<impVars, ioVars>>
  /\ UNCHANGED drvVars
  /\ UNCHANGED auxVars

\* syscall/js.copyBytesToJS(sp): dst the host value h, src the guest's slice
\* of n bytes
CopyBytesToJS(n, h) ==
  /\ GuestRunning
  /\ LET src == sliceBytes(mem, n) IN
     IF ~isByteArray(h)
       THEN /\ mem' = setUint8(mem, sp + 48, 0)
            /\ hostArr' = h
       ELSE LET toCopy == subarray(src, Len(h.bytes)) IN
            /\ hostArr' = [h EXCEPT !.bytes = set(@, toCopy)]
            /\ mem' = setUint8(setInt64(mem, sp + 40, Count(Len(toCopy))), sp + 48, 1)
  /\ copyOp' = [op |-> "toJS", len |-> n, h |-> h]
  /\ UNCHANGED <<values, goRefCounts, ids, idPool, held, wellBehaved, tblOp>>
  /\ UNCHANGED <<impVars, ioVars>>
  /\ UNCHANGED drvVars
  /\ UNCHANGED auxVars

NextCopy ==
  \/ \E n \in 0..MaxLen, h \in HostArrs : CopyBytesToGo(n, h)
  \/ \E n \in 0..MaxLen, h \in HostArrs : CopyBytesToJS(n, h)

(***************************************************************************)
(* The imports that only read their operands, and loadSliceOfValues.       *)
(***************************************************************************)

\* a number of getInt64 that is an address or a length of this memory
Small(v) == v # Rounded /\ ~v.neg /\ allZero(SubSeq(v.mag, 3, 8))
SmallNum(v) == v.mag[1] + 256 * v.mag[2]

\* loadSliceOfValues(addr): loadValue of each of len slots from array on; a
\* slot that is not in the memory makes the DataView throw a RangeError
loadSliceOfValues(addr) ==
  LET array == getInt64(mem, addr)
      len == getInt64(mem, addr + 8)
  IN IF /\ Small(array) /\ Small(len)
        /\ \A i \in 1..SmallNum(len) : SmallNum(array) + (i - 1) * 8 \in DOMAIN mem
       THEN [ok |-> TRUE,
             a |-> [i \in 1..SmallNum(len) |-> loadValue(SmallNum(array) + (i - 1) * 8)]]
       ELSE [ok |-> FALSE, a |-> <<>>]

\* valueCall, valueInvoke or valueNew loading its arguments
LoadSliceOfValues(addr) ==
  /\ GuestRunning
  /\ tblOp' = TblOp("loadSlice", addr, loadSliceOfValues(addr), 0, FALSE)
  /\ UNCHANGED <<mem, values, goRefCounts, ids, idPool, held, wellBehaved>>
  /\ UNCHANGED drvVars
  /\ UNCHANGED auxVars
  /\ UNCHANGED extVars

\* the imports that load operands and store no value
ReadImports ==
  {"valueSet", "valueDelete", "valueSetIndex", "valueLength", "valueInstanceOf",
   "valueLoadString"}

\* one of them called: loadValue(sp + 8) and the other operands are read;
\* valueLength writes the length n at sp + 16, valueInstanceOf a byte at
\* sp + 24, valueLoadString the n bytes of the string into the guest's slice
ReadImport(imp, n) ==
  /\ GuestRunning
  /\ impCall.stage \in {"idle", "done"}
  /\ impCall.n < MaxCalls
  /\ tblOp' = TblOp("load", sp + 8, loadValue(sp + 8), 0, FALSE)
  /\ mem' = CASE imp = "valueLength" -> setInt64(mem, sp + 16, Count(n))
              [] imp = "valueInstanceOf" -> setUint8(mem, sp + 24, n % 2)
              [] imp = "valueLoadString"
                   -> withSlice(mem, set(sliceBytes(mem, n), SubSeq(HostBytes, 1, n)))
              [] OTHER -> mem
  /\ impCall' = [NoImport EXCEPT !.imp = imp, !.stage = "done", !.sp0 = sp,
                                 !.n = impCall.n + 1]
  /\ UNCHANGED <<values, goRefCounts, ids, idPool, held, wellBehaved>>
  /\ UNCHANGED sp
  /\ UNCHANGED <<cpyVars, ioVars>>
  /\ UNCHANGED drvVars
  /\ UNCHANGED auxVars

(***************************************************************************)
(* The sys shim: fs and process of sys.ts, and runtime.wasmWrite.          *)
(***************************************************************************)

Newline == 10
ReplacementChar == 65533

\* the byte arrays the guest writes: "a", "\n", the two bytes of "é" apart
\* and together, and a text of three lines
WriteBufs == {<<97>>, <<10>>, <<195>>, <<169>>, <<195, 169>>,
              <<97, 10, 98, 10, 99>>}
Fds == {1, 2}

\* decoder.decode(buf) of a fresh, non-streaming decode: bytes below 0xE0,
\* an ill-formed sequence becomes U+FFFD
RECURSIVE decode(_)
decode(b) ==
  IF b = <<>> THEN <<>>
  ELSE IF b[1] < 128 THEN <<b[1]>> \o decode(Tail(b))
  ELSE IF b[1] \in 194..223 /\ Len(b) >= 2 /\ b[2] \in 128..191
    THEN <<(b[1] - 192) * 64 + (b[2] - 128)>> \o decode(Tail(Tail(b)))
  ELSE <<ReplacementChar>> \o decode(Tail(b))

\* the index of the first occurrence instead of the last
lastIndexOf_first(s, c) ==
  LET hits == {i \in 1..Len(s) : s[i] = c} IN
  IF hits = {} THEN -1 ELSE (CHOOSE i \in hits : \A j \in hits : i <= j) - 1

\* s.lastIndexOf(c): 0-based, -1 when c does not occur
lastIndexOf(s, c) ==
  LET hits == {i \in 1..Len(s) : s[i] = c} IN
  IF hits = {} THEN -1 ELSE (CHOOSE i \in hits : \A j \in hits : j <= i) - 1

\* s.substr(start, length), the length clamped to the end of s
substr(s, start, length) ==
  SubSeq(s, start + 1, IF start + length > Len(s) THEN Len(s) ELSE start + length)

\* fs.writeSync(fd, buf) on the buffer out: the new buffer, what it logged
\* and what it returned
writeSync(buf, out) ==
  LET text == out \o decode(buf)
      nl == lastIndexOf(text, Newline)
  IN  [outputBuf |-> IF nl # -1 THEN substr(text, nl + 1, Len(text)) ELSE text,
       logged |-> IF nl # -1 THEN <<substr(text, 0, nl)>> ELSE <<>>,
       ret |-> Len(buf)]

\* one call of a callback: callback(err) or callback(err, n); n = -1: absent
Callback(err, n) == [err |-> err, n |-> n]

\* enosys(): the error whose code is "ENOSYS"
enosys == "ENOSYS"

SysOp(op, fd, cb, ret, returned, threw) ==
  [op |-> op, fd |-> fd, cb |-> cb, ret |-> ret, returned |-> returned,
   threw |-> threw]

\* runtime.wasmWrite(sp): fd, p and n read from the stack, the n bytes buf at
\* p of the view's buffer handed to fs.writeSync; a Uint8Array cannot be made
\* on the buffer a memory growth has detached
WasmWrite(fd, buf) ==
  /\ GuestRunning
  /\ Len(writes) < MaxWrites
  /\ viewOp' = [viewOp EXCEPT !.op = "wasmWrite", !.buf = dataViewBuf,
                                !.threw = dataViewBuf # exportsBuf]
  /\ IF dataViewBuf # exportsBuf
       THEN /\ sysOp' = SysOp("wasmWrite", fd, <<>>, 0, FALSE, "TypeError")
            /\ UNCHANGED <<outputBuf, sink, writes>>
       ELSE LET r == writeSync(buf, outputBuf) IN
            /\ outputBuf' = r.outputBuf
            /\ sink' = sink \o r.logged
            /\ writes' = Append(writes, buf)
            /\ sysOp' = SysOp("writeSync", fd, <<>>, r.ret, TRUE, "none")
  /\ UNCHANGED <<exportsBuf, dataViewBuf>>
  /\ UNCHANGED <<drvVars, tblVars, auxVars, impVars, cpyVars, clkVars>>

\* a write that is passed on whatever offset, length and position are
writeAccepts_any(buf, offset, length, position) == TRUE

\* the arguments fs.write passes on to writeSync
writeAccepts(buf, offset, length, position) ==
  offset = 0 /\ length = Len(buf) /\ position = "null"

\* what a caller of fs.write gives beside fd and buf: as the Go runtime does,
\* or with one of the three off
WriteArgs(buf) ==
  {[offset |-> 0, length |-> Len(buf), position |-> "null"],
   [offset |-> 1, length |-> Len(buf), position |-> "null"],
   [offset |-> 0, length |-> Len(buf) + 1, position |-> "null"],
   [offset |-> 0, length |-> Len(buf), position |-> "0"]}

\* fs.write(fd, buf, offset, length, position, callback)
FsWrite(fd, buf, a) ==
  /\ Len(writes) < MaxWrites
  /\ IF ~writeAccepts(buf, a.offset, a.length, a.position)
       THEN /\ sysOp' = SysOp("write", fd, <<Callback(enosys, -1)>>, 0, TRUE, "none")
            /\ UNCHANGED <<outputBuf, sink, writes>>
       ELSE LET r == writeSync(buf, outputBuf) IN
            /\ outputBuf' = r.outputBuf
            /\ sink' = sink \o r.logged
            /\ writes' = Append(writes, buf)
            /\ sysOp' = SysOp("write", fd, <<Callback("null", r.ret)>>, 0, TRUE, "none")
  /\ UNCHANGED viewVars
  /\ UNCHANGED <<drvVars, tblVars, auxVars, impVars, cpyVars, clkVars>>

\* the members of fs whose body is callback(enosys())
FsStubs ==
  {"chmod", "chown", "close", "fchmod", "fchown", "fstat", "ftruncate",
   "lchown", "link", "lstat", "mkdir", "open", "read", "readdir", "readlink",
   "rename", "rmdir", "stat", "symlink", "truncate", "unlink", "utimes"}

\* fs.<name>(..., callback) for a member that is not implemented
FsStub(name) ==
  /\ sysOp' = SysOp(name, 0, <<Callback(enosys, -1)>>, 0, TRUE, "none")
  /\ UNCHANGED <<outputBuf, sink, writes>>
  /\ UNCHANGED viewVars
  /\ UNCHANGED <<drvVars, tblVars, auxVars, impVars, cpyVars, clkVars>>

\* fs.fsync(fd, callback): callback(null)
Fsync(fd) ==
  /\ sysOp' = SysOp("fsync", fd, <<Callback("null", -1)>>, 0, TRUE, "none")
  /\ UNCHANGED <<outputBuf, sink, writes>>
  /\ UNCHANGED viewVars
  /\ UNCHANGED <<drvVars, tblVars, auxVars, impVars, cpyVars, clkVars>>

ProcessIds == {"getuid", "getgid", "geteuid", "getegid"}
ProcessStubs == {"getgroups", "umask", "cwd", "chdir"}

\* process.getuid(), getgid(), geteuid(), getegid(): return -1
ProcessId(name) ==
  /\ sysOp' = SysOp(name, 0, <<>>, -1, TRUE, "none")
  /\ UNCHANGED <<outputBuf, sink, writes>>
  /\ UNCHANGED viewVars
  /\ UNCHANGED <<drvVars, tblVars, auxVars, impVars, cpyVars, clkVars>>

\* process.getgroups(), umask(), cwd(), chdir(): throw enosys()
ProcessStub(name) ==
  /\ sysOp' = SysOp(name, 0, <<>>, 0, FALSE, enosys)
  /\ UNCHANGED <<outputBuf, sink, writes>>
  /\ UNCHANGED viewVars
  /\ UNCHANGED <<drvVars, tblVars, auxVars, impVars, cpyVars, clkVars>>

NextSys ==
  \/ \E fd \in Fds, buf \in WriteBufs : WasmWrite(fd, buf)
  \/ \E fd \in Fds, buf \in WriteBufs : \E a \in WriteArgs(buf) : FsWrite(fd, buf, a)
  \/ \E name \in FsStubs : FsStub(name)
  \/ \E fd \in Fds : Fsync(fd)
  \/ \E name \in ProcessIds : ProcessId(name)
  \/ \E name \in ProcessStubs : ProcessStub(name)

(***************************************************************************)
(* The memory view: initMemoryBuffer under a memory that grows.            *)
(***************************************************************************)

\* the members of the memory buffer that read or write through dataView
Accessors ==
  {"setUint8", "getInt32", "setInt32", "getUint32", "setUint32", "setInt64",
   "getInt64", "getFloat64", "setFloat64", "loadSlice", "loadString"}

\* an import calls a typed accessor, loadSlice or loadString: each goes
\* through dataView or dataView.buffer, and throws a TypeError once a memory
\* growth has detached that buffer
Access(op) ==
  /\ GuestRunning
  /\ viewOp' = [viewOp EXCEPT !.op = op, !.buf = dataViewBuf,
                                !.threw = dataViewBuf # exportsBuf]
  /\ UNCHANGED <<exportsBuf, dataViewBuf>>
  /\ UNCHANGED sysVars
  /\ UNCHANGED <<drvVars, tblVars, auxVars, impVars, cpyVars, clkVars>>

\* the guest grows its memory: module.exports.mem.buffer is a new ArrayBuffer
\* from then on, and the one it was is detached
GuestGrowMemory ==
  /\ GuestRunning
  /\ exportsBuf <= MaxGrows
  /\ exportsBuf' = exportsBuf + 1
  /\ UNCHANGED <<dataViewBuf, viewOp>>
  /\ UNCHANGED sysVars
  /\ UNCHANGED <<drvVars, tblVars, auxVars, impVars, cpyVars, clkVars>>

\* run(args, env) writes the arguments through the view, which it can do
\* only while the view is on the memory's buffer
NextView ==
  \/ LoadModule
  \/ (dataViewBuf = exportsBuf \/ module = NULL) /\ Run(MainArgs, MainEnv)
  \/ ReturnFromRun
  \/ ResetMemoryDataView
  \/ GuestGrowMemory
  \/ \E op \in Accessors : Access(op)
  \/ \E fd \in Fds : WasmWrite(fd, <<97>>)

(***************************************************************************)
(* Specifications of the driver.                                           *)
(***************************************************************************)

\* operations both drivers offer
NextDriver ==
  \/ LoadModule
  \/ Run(MainArgs, MainEnv)
  \/ ReturnFromRun
  \/ \E code \in ExitCodes : GuestWasmExit(code)
  \/ ResetMemoryDataView
  \/ \E k \in FuncIds : MakeFuncWrapper(k)
  \/ \E k \in FuncIds : InvokeWrapper(k, GlobalThis, <<>>)
  \/ \E k \in FuncIds : GuestInvokeWrapper(k, GlobalThis, <<>>)
  \/ ReturnFromWrapper
  \/ \E d \in Delays : GuestScheduleTimeout(d)
  \/ \E id \in 1..MaxTimers : GuestClearTimeout(id)
  \/ \E t \in 1..MaxTimers : TimerFire(t)
  \/ ReturnFromTimer
  \/ TimerRetry

\* members only the go.ts instance exposes to the embedder
NextEarly ==
  \/ \E code \in ExitCodes : ExitEarly(code)
  \/ ResumeEarly
  \/ Getsp

Next == NextDriver \/ NextEarly

\* the timer service under a guest that schedules, clears and exits
NextTimers ==
  \/ ReturnFromRun
  \/ \E c \in ExitCodes : GuestWasmExit(c)
  \/ \E d \in Delays : GuestScheduleTimeout(d)
  \/ \E id \in 1..MaxTimers : GuestClearTimeout(id)
  \/ \E t \in 1..MaxTimers : TimerFire(t)
  \/ ReturnFromTimer
  \/ TimerRetry

\* a guest that stores values, uses timers and exits
NextExit ==
  \/ NextTimers
  \/ \E addr \in Addrs, v \in RefVals : StoreValue(addr, v)

\* func-wrapper calls and the imports the guest handles their events with
NextEvents ==
  \/ ReturnFromRun
  \/ \E k \in FuncIds : MakeFuncWrapper(k)
  \/ \E k \in FuncIds, r \in Receivers, a \in EventArgs : InvokeWrapper(k, r, a)
  \/ \E k \in FuncIds, r \in Receivers, a \in EventArgs : GuestInvokeWrapper(k, r, a)
  \/ ReturnFromWrapper
  \/ GuestGetPendingEvent
  \/ GuestClearPendingEvent
  \/ \E v \in Results : GuestSetResult(v)

Init == (\E d \in Drafts : InitDriver(d)) /\ InitTable /\ InitAux

InitJsGo == InitDriver("jsGo") /\ InitTable /\ InitAux

\* the guest has been entered by main.ts's run(["js"], {}) and calls imports
InitGuestMem(d, m0) ==
  /\ draft = d
  /\ module = MODULE_
  /\ exited = FALSE
  /\ exitResolved = FALSE
  /\ runFutures = <<"running">>
  /\ exitLog = <<>>
  /\ warnings = <<>>
  /\ scheduledTimeouts = {}
  /\ nextCallbackTimeoutID = 1
  /\ hostTimers = <<>>
  /\ stack = <<Frame("run", 1, 0, 0, FALSE)>>
  /\ self_pendingEvent = NoEvent
  /\ closure_pendingEvent = NoEvent
  /\ wrappers = {}
  /\ lastOp = Op("run", "host", "entered", "run", FALSE, FALSE)
  /\ LET r == storeArguments(m0, MainArgs, MainEnv) IN
     /\ mem = r.m
     /\ argCall = ArgCall(r)
  /\ InitValues
  /\ InitExt
  /\ InitIo(TRUE)
  /\ origin = [i \in Ids |-> NoHost]
  /\ hostOp = NoHost
  /\ guestEvent = NoEvent

InitGuestOf(d) == InitGuestMem(d, [a \in Addrs |-> zeroSlot])

\* either driver, the guest entered by run, its slice's backing array filled
InitCopy ==
  /\ \E d \in Drafts :
       InitGuestMem(d, [a \in Addrs \cup stackSlots(64) \cup {sliceAddr} |->
                          IF a = sliceAddr
                            THEN [i \in 1..8 |-> IF i <= Len(GuestBytes) THEN GuestBytes[i] ELSE 0]
                            ELSE zeroSlot])
  /\ int64Op = NoInt64

\* either driver, the guest entered by run, the memory of its stacks zeroed
InitImports ==
  /\ \E d \in Drafts :
       InitGuestMem(d, [a \in Addrs \cup UNION {stackSlots(s) : s \in SpVals} |-> zeroSlot])
  /\ int64Op = NoInt64

InitGuest == InitGuestOf("jsGo")

InitRefs == InitGuest /\ int64Op = NoInt64

\* either driver, the guest entered by run
InitEvents == (\E d \in Drafts : InitGuestOf(d)) /\ int64Op = NoInt64

\* the same, with the number an import is about to write as a 64-bit integer
InitInt64 == InitGuest /\ \E v \in Int53 : int64Op = [op |-> "arg", addr |-> 0, v |-> v, r |-> 0]

\* either driver
Spec == Init /\ [][Next]_vars

\* the driver of glue/jsGo.ts, createJsGo
SpecJsGo == InitJsGo /\ [][NextDriver]_vars

\* createJsGo's run(args, env) over argument lists and environments
SpecArgs == InitJsGo /\ [][NextArgs]_vars

\* the value table under the imports of a running guest
SpecRefs == InitRefs /\ [][NextRefs]_vars

\* the copyBytes imports of a running guest, either driver
SpecCopy == InitCopy /\ [][NextCopy]_vars

\* the reflective imports of a running guest, either driver
SpecImports == InitImports /\ [][NextImports]_vars

\* value table and timer registry across wasmExit, either driver
SpecExit == InitEvents /\ [][NextExit]_vars

\* the timer service of either driver, the guest entered by run
SpecTimers == InitEvents /\ [][NextTimers]_vars

\* func-wrappers and the guest's handling of their events, either driver
SpecEvents == InitEvents /\ [][NextEvents]_vars

\* setInt64 then getInt64 on the integers of Int53
SpecInt64 == InitInt64 /\ [][NextInt64]_vars

\* the value table storing a value of every type
SpecEnc == InitRefs /\ [][NextEnc]_vars

\* the value table under imports that store what host calls produce
SpecKeys == InitRefs /\ [][NextKeys]_vars

(***************************************************************************)
(* Claims about the value table.                                           *)
(***************************************************************************)

\* the id is in the inverse map
InInverse(id) == \E v \in DOMAIN ids : ids[v] = id

\* the table slot of the id holds a value the guest has references to
Live(id) == id < Len(values) /\ Positive(goRefCounts[id])

StoreStep == \E addr \in Addrs, v \in StoreVals : StoreValue(addr, v)

\* C6: directly after storeValue(addr, v) of a value that is not NaN, not
\* undefined and not zero, loadValue(addr) returns v itself.
C6_RoundTrip ==
  (tblOp.op = "store" /\ tblOp.v \notin {NaN, Undefined, Num(0)})
    => loadValue(tblOp.addr) = tblOp.v

\* C6 witness: a negative number, and an object that got a recycled id, were
\* stored and read back.
C6_Witness ==
  /\ tblOp.op = "store"
  /\ \/ tblOp.v = Num(-2)
     \/ tblOp.v = Obj(1) /\ tblOp.alloc /\ idPool # <<>>
  /\ loadValue(tblOp.addr) = tblOp.v

\* C7: while the guest finalizes an id at most as often as the id was written
\* to it, every non-seeded id the guest still holds is in the inverse map with
\* a ref-count of at least 1, and no id on the free-list is in the inverse map.
C7_HeldIdsAreLive ==
  wellBehaved =>
    /\ \A id \in Ids :
         held[id] > 0 =>
           \/ id < SeedLen
           \/ InInverse(id) /\ goRefCounts[id].k = "num" /\ goRefCounts[id].n >= 1
    /\ \A i \in DOMAIN idPool : ~InInverse(idPool[i])

\* C7 witness: the guest holds one id while another is on the free-list.
C7_Witness ==
  /\ wellBehaved
  /\ idPool # <<>>
  /\ \E id \in Ids : held[id] > 0 /\ id >= SeedLen

\* C8: whatever the guest finalizes, storeValue never gives a new value an id
\* whose table slot holds a value with a positive ref-count.
C8_AllocatedIdNotLive ==
  [][(StoreStep /\ tblOp'.alloc) => ~Live(tblOp'.id)]_vars

\* C8 witness: after the guest finalized more often than it stored, storeValue
\* took an id from the free-list.
C8_Witness ==
  /\ ~wellBehaved
  /\ tblOp.op = "store" /\ tblOp.alloc
  /\ tblOp.id < Len(values) - 1

\* C9: finalizeRef on a seeded id leaves the table entry, the inverse map and
\* the free-list unchanged and the id's count positive.
C9_SeededNeverCollected ==
  [][\A id \in 0..(SeedLen - 1) :
       FinalizeRef(id) =>
         /\ values' = values
         /\ ids' = ids
         /\ idPool' = idPool
         /\ Positive(goRefCounts'[id])]_vars

\* C9 witness: finalizeRef ran on the seeded id of null, which is still there.
C9_Witness ==
  /\ tblOp.op = "remove" /\ tblOp.id = 2
  /\ valueAt(2) = Null /\ ids[Null] = 2

\* C10: removeRef(id) lowers a numeric count by one; exactly when the count
\* becomes zero it clears the slot, removes the value's inverse mapping and
\* pushes the id; otherwise table, inverse map and free-list are unchanged.
C10_RemoveRefEffect ==
  [][\A id \in Ids :
       FinalizeRef(id) =>
         /\ goRefCounts[id].k = "num" => goRefCounts'[id] = NumC(goRefCounts[id].n - 1)
         /\ \A j \in Ids \ {id} : goRefCounts'[j] = goRefCounts[j]
         /\ IF goRefCounts[id] = NumC(1)
              THEN /\ valueAt(id)' = Null
                   /\ \A j \in 0..(Len(values) - 1) : j # id => valueAt(j)' = valueAt(j)
                   /\ DOMAIN ids' = DOMAIN ids \ {valueAt(id)}
                   /\ \A v \in DOMAIN ids' : ids'[v] = ids[v]
                   /\ idPool' = Append(idPool, id)
              ELSE /\ values' = values
                   /\ ids' = ids
                   /\ idPool' = idPool]_vars

\* C10 witness: a removeRef took a count from 2 to 1, and one from 1 to 0.
C10_Witness ==
  /\ tblOp.op = "remove" /\ tblOp.id >= SeedLen
  /\ \/ goRefCounts[tblOp.id] = NumC(1) /\ InInverse(tblOp.id)
     \/ goRefCounts[tblOp.id] = NumC(0) /\ idPool # <<>> /\ idPool[Len(idPool)] = tblOp.id

\* the id whose slot the host value h allocated, as a set
IdsOf(h) == {id \in Ids : origin[id] = h}

\* the ids of the host values held that have the type and content of h
IdsLike(h) == {id \in Ids : origin[id].t = h.t /\ origin[id].text = h.text}

\* C11 as claimed: storeValue of a string or object that the table does not
\* hold, while it holds one of equal content, allocates a new id; storeValue of
\* a value the table holds reuses the id of that value.
C11_EqualContentGetsNewId ==
  [][\A addr \in Addrs, h \in HostVals :
       StoreHostValue(addr, h) =>
         /\ IdsOf(h) # {} => (tblOp'.id \in IdsOf(h) /\ ~tblOp'.alloc)
         /\ (IdsOf(h) = {} /\ IdsLike(h) # {})
              => (tblOp'.alloc /\ tblOp'.id \notin IdsLike(h))]_vars

\* C11 amended: an object the table does not hold gets a new id even when an
\* object of equal structure is held; a string gets the id of the held string
\* of the same text, whichever allocation it is, and a new id only when no
\* string of that text is held; a new id is the id of no held value, and
\* every storeValue raises the count of the id it wrote by one.
C11_ObjectsByIdentityStringsByText ==
  [][\A addr \in Addrs, h \in HostVals :
       StoreHostValue(addr, h) =>
         LET same == IF h.t = "string" THEN IdsLike(h) ELSE IdsOf(h) IN
         /\ same # {} =>
              /\ tblOp'.id \in same /\ ~tblOp'.alloc
              /\ goRefCounts'[tblOp'.id] = Inc(goRefCounts[tblOp'.id])
              /\ origin' = origin
         /\ same = {} =>
              /\ tblOp'.alloc
              /\ origin[tblOp'.id] = NoHost /\ origin'[tblOp'.id] = h
              /\ goRefCounts'[tblOp'.id] = NumC(1)]_vars

\* C11 witness: the second allocation of a string was stored while the first
\* was held and got its id, and both objects of equal structure are held
\* under two ids.
C11_Witness ==
  /\ hostOp = HostVal("string", 1, 2)
  /\ origin[tblOp.id] = HostVal("string", 1, 1) /\ ~tblOp.alloc
  /\ IdsOf(HostVal("object", 1, 1)) # {}
  /\ IdsOf(HostVal("object", 1, 2)) # {}
  /\ IdsOf(HostVal("object", 1, 1)) # IdsOf(HostVal("object", 1, 2))

\* the two words of the slot at addr
LowWord(m, addr) == getUint32(m, addr, 0)
HighWord(m, addr) == getUint32(m, addr, 4)

\* the flag the encoding gives a value that goes through the table
FlagOf(v) ==
  CASE v.k \in {"obj", "globalThis", "jsGo"} -> 1
    [] v.k = "str" -> 2
    [] v.k = "sym" -> 3
    [] v.k = "fun" -> 4
    [] v \in {Null, Bool(TRUE), Bool(FALSE), Num(0)} -> 0

\* C12: storeValue(addr, undefined) leaves eight zero bytes; storeValue(addr,
\* NaN) leaves low word 0 and high word 0x7FF80000 and does not touch the
\* table; every other value that is not a number, and the number zero, leaves
\* low word = its id and high word = 0x7FF80000 + flag, the flag being 1 for an
\* object, 2 for a string, 3 for a symbol, 4 for a function and 0 for null
\* (id 2), true (id 3), false (id 4) and zero (id 1).
C12_NaNBoxedEncoding ==
  [][\A addr \in Addrs, v \in EncVals :
       StoreValue(addr, v) =>
         /\ v = Undefined =>
              /\ mem'[addr] = <<0, 0, 0, 0, 0, 0, 0, 0>>
              /\ UNCHANGED <<values, goRefCounts, ids, idPool>>
         /\ v = NaN =>
              /\ LowWord(mem', addr) = 0
              /\ HighWord(mem', addr) = 2146959360
              /\ UNCHANGED <<values, goRefCounts, ids, idPool>>
         /\ (v.t # "number" /\ v # Undefined) \/ v = Num(0) =>
              /\ LowWord(mem', addr) = ids'[v]
              /\ values'[ids'[v] + 1] = v
              /\ HighWord(mem', addr) = 2146959360 + FlagOf(v)
         /\ v = Null => LowWord(mem', addr) = 2
         /\ v = Bool(TRUE) => LowWord(mem', addr) = 3
         /\ v = Bool(FALSE) => LowWord(mem', addr) = 4
         /\ v = Num(0) => LowWord(mem', addr) = 1]_vars

\* C12 witness: a function was stored after a symbol and a string; it got the
\* third new id and the slot holds that id and 0x7FF80004.
C12_Witness ==
  /\ tblOp.op = "store" /\ tblOp.v = Fun(1) /\ tblOp.alloc
  /\ Sym(1) \in DOMAIN ids /\ Str(1) \in DOMAIN ids
  /\ mem[tblOp.addr] = <<SeedLen + 2, 0, 0, 0, 4, 0, 248, 127>>

(***************************************************************************)
(* Claims about storeArguments and run(args, env).                         *)
(***************************************************************************)

\* the byte at offset o, and the n bytes from ptr on
ReadByte(m, o) == slotAt(m, o - (o % 8))[(o % 8) + 1]
ReadBytes(m, ptr, n) == [i \in 1..n |-> ReadByte(m, ptr + i - 1)]

\* the i-th slot of the pointer array at argv
PtrSlot(i) == argCall.argv + 8 * (i - 1)

\* str is in memory at ptr, NUL-terminated
StringAt(ptr, str) ==
  ReadBytes(mem, ptr, Len(encode(str)) + 1) = encode(str) \o <<0>>

\* the env entries whose KEY=VALUE string is in memory at ptr
EntriesAt(ptr) ==
  {j \in 1..Len(argCall.env) :
     StringAt(ptr, argCall.env[j][1] \o <<61>> \o argCall.env[j][2])}

\* C13: after storeArguments(args, env), argc is the number of args; the
\* pointer array at argv (a multiple of 8, 64-bit slots with high word 0) lists
\* one pointer per arg in order, a 0 slot, one pointer per env entry, and a
\* final 0 slot; the pointers are multiples of 8, start at 4096 and increase;
\* each points at its NUL-terminated string, and the env entries follow each
\* other in strictly increasing key order.
C13_ArgumentLayout ==
  argCall.called =>
    LET n == Len(argCall.args)
        e == Len(argCall.env)
        P(i) == LowWord(mem, PtrSlot(i))
    IN /\ argCall.argc = n
       /\ argCall.argv % 8 = 0
       /\ argCall.offset = argCall.argv + 8 * (n + e + 2)
       /\ \A i \in 1..(n + e + 2) : HighWord(mem, PtrSlot(i)) = 0
       /\ P(n + 1) = 0 /\ P(n + e + 2) = 0
       /\ \A i \in 1..n : P(i) % 8 = 0 /\ StringAt(P(i), argCall.args[i])
       /\ \A i \in (n + 2)..(n + e + 1) : P(i) % 8 = 0 /\ EntriesAt(P(i)) # {}
       /\ \A i \in (n + 2)..(n + e) :
            \A j \in EntriesAt(P(i)), k \in EntriesAt(P(i + 1)) :
              StrLess(argCall.env[j][1], argCall.env[k][1])
       /\ LET S == [i \in 1..(n + e) |-> IF i <= n THEN P(i) ELSE P(i + 1)] IN
          /\ (n + e > 0) => S[1] = 4096
          /\ \A i \in 1..(n + e - 1) : S[i] < S[i + 1]
          /\ (n + e > 0) => S[n + e] < argCall.argv

\* C13 witness: run(["js", "é"], {B: "1", A: "1"}) wrote "A=1" before "B=1"
\* and the six pointer slots at 4128.
C13_Witness ==
  /\ argCall.called /\ argCall.ok
  /\ argCall.args = <<Js, Eacute>>
  /\ argCall.env = <<<<(<<66>>), EnvVal>>, <<(<<65>>), EnvVal>>>>
  /\ ReadBytes(mem, 4104, 3) = <<195, 169, 0>>
  /\ ReadBytes(mem, 4112, 4) = <<65, 61, 49, 0>>
  /\ ReadBytes(mem, 4120, 4) = <<66, 61, 49, 0>>
  /\ argCall.argv = 4128 /\ argCall.argc = 2
  /\ [i \in 1..6 |-> LowWord(mem, PtrSlot(i))] = <<4096, 4104, 0, 4112, 4120, 0>>

\* a step that is a call of run(args, env) with a module loaded
RunCall == Len(runFutures') = Len(runFutures) + 1 /\ module # NULL

\* C14: storeArguments throws exactly when the offset after the pointer array
\* is at least 12288; a call that returned changed no byte outside
\* [4096, 12288) and run goes on to enter the guest's run export; when it
\* throws, run rejects and no guest export is entered.
C14_OverflowRejectsRun ==
  [][RunCall =>
         /\ argCall'.called
         /\ argCall'.ok <=> argCall'.offset < 12288
         /\ argCall'.ok =>
              /\ \A a \in DOMAIN mem' :
                   mem'[a] # slotAt(mem, a) => (a >= 4096 /\ a + 8 <= 12288)
              /\ stack' # <<>> /\ lastOp'.exp = "run"
              /\ runFutures'[Len(runFutures')] = "running"
         /\ ~argCall'.ok =>
              /\ stack' = <<>> /\ lastOp'.exp = "none"
              /\ runFutures'[Len(runFutures')] = "ArgumentOverflow"]_vars

\* C14 witness: run([long], {A: "1"}) ended with the offset at exactly 12288,
\* the run rejected and the guest not entered.
C14_Witness ==
  /\ argCall.called /\ ~argCall.ok
  /\ argCall.offset = 12288
  /\ argCall.args = <<Long>> /\ Len(argCall.env) = 1
  /\ runFutures = <<"ArgumentOverflow">>
  /\ stack = <<>>

\* a + b modulo 256^Len(a), bytewise
RECURSIVE AddBytes(_, _, _)
AddBytes(a, b, carry) ==
  IF a = <<>> THEN <<>>
  ELSE <<(a[1] + b[1] + carry) % 256>>
         \o AddBytes(Tail(a), Tail(b), (a[1] + b[1] + carry) \div 256)

\* C15: for an integer v below 2^53 in magnitude, setInt64(a, v) leaves the
\* 64-bit two's complement of v in the slot, little-endian (the low word is
\* v mod 2^32 and the high word floor(v / 2^32) mod 2^32): the slot is the
\* magnitude when v >= 0 and adds up with the magnitude to 0 modulo 2^64 when
\* v < 0; getInt64(a) afterwards returns v; 4294967297 is stored as the words
\* (1, 1) and -1 as all-ones bytes.
C15_Int64RoundTrip ==
  int64Op.op \in {"set", "get"} =>
    LET v == int64Op.v
        slot == mem[int64Op.addr]
    IN /\ ~v.neg => slot = v.mag
       /\ v.neg => allZero(AddBytes(slot, v.mag, 0))
       /\ v = Int64(FALSE, <<1, 0, 0, 0, 1, 0, 0, 0>>) =>
            (LowWord(mem, int64Op.addr) = 1 /\ HighWord(mem, int64Op.addr) = 1)
       /\ v = Int64(TRUE, <<1, 0, 0, 0, 0, 0, 0, 0>>) =>
            slot = <<255, 255, 255, 255, 255, 255, 255, 255>>
       /\ int64Op.op = "get" => int64Op.r = v

\* C15 witness: -(2^32 + 1) was written as the words (0xFFFFFFFF, 0xFFFFFFFE)
\* and read back.
C15_Witness ==
  /\ int64Op.op = "get"
  /\ int64Op.v = Int64(TRUE, <<1, 0, 0, 0, 1, 0, 0, 0>>)
  /\ mem[int64Op.addr] = <<255, 255, 255, 255, 254, 255, 255, 255>>
  /\ int64Op.r = int64Op.v

(***************************************************************************)
(* Claims about func-wrappers and their pending event.                     *)
(***************************************************************************)

\* a step in which the function made for callback id k is called with
\* receiver r and arguments a
WrapperInvoked(k, r, a) == InvokeWrapper(k, r, a) \/ GuestInvokeWrapper(k, r, a)

\* the event the driver holds staged
stagedEvent == IF draft # "jsGo" THEN self_pendingEvent ELSE closure_pendingEvent

\* C16: invoking the func-wrapper made for callback id k with receiver r and
\* arguments a stages the record {id: k, this: r, args: a} as the _pendingEvent
\* the guest reads from the object seeded as id 6 before resume runs, calls
\* the driver's resume once, and the wrapper returns the value the guest wrote
\* into the result field of that record.
C16_WrapperStagesEventForGuest ==
  [][/\ \A k \in FuncIds, r \in Receivers, a \in EventArgs :
          WrapperInvoked(k, r, a)
            => (/\ self_pendingEvent'.id = k
                /\ self_pendingEvent'.this = r
                /\ self_pendingEvent'.args = a
                /\ lastOp'.op = "wrapper"
                /\ lastOp'.res = "entered" => lastOp'.exp = "resume")
     /\ ReturnFromWrapper => lastOp'.ret = Top.result]_vars

\* C17: at most one pending event exists at a time: a func-wrapper invoked
\* while the staged event of another wrapper call is still in progress is
\* rejected, it neither replaces the staged event nor enters the guest.
C17_NestedInvocationRejected ==
  [][\A k \in FuncIds, r \in Receivers, a \in EventArgs :
       (WrapperInvoked(k, r, a) /\ stagedEvent.frame > 0)
         => (/\ stagedEvent' = stagedEvent
             /\ stack' = stack
             /\ lastOp'.res # "entered")]_vars

(***************************************************************************)
(* Claims about the timer service.                                         *)
(***************************************************************************)

\* the ids scheduleTimeoutEvent has handed out: one per host timer registered
HandedOut == 1..Len(hostTimers)

\* C18: scheduleTimeoutEvent returns the ids 1, 2, 3, ... in call order: the
\* id a call returns is one more than the number of ids handed out before, so
\* greater than each of them and never one that was cleared or fired; the keys
\* of the registry are always among the ids handed out; the host timer of the
\* call is registered with the requested delay plus 1.
C18_TimerIdsIncrease ==
  [][/\ \A d \in Delays :
          GuestScheduleTimeout(d)
            => (/\ lastOp'.ret = Num(Len(hostTimers) + 1)
                /\ \A id \in HandedOut : id < lastOp'.ret.n
                /\ scheduledTimeouts' = scheduledTimeouts \cup {lastOp'.ret.n}
                /\ Len(hostTimers') = Len(hostTimers) + 1
                /\ hostTimers'[lastOp'.ret.n] = [delay |-> d + 1, st |-> "armed"])
     /\ scheduledTimeouts' \subseteq 1..Len(hostTimers')]_vars

\* C18 witness: id 1 fired and was cleared, and the next call returned id 2
\* with the delay 5 registered as 6.
C18_Witness ==
  /\ lastOp.op = "schedule"
  /\ lastOp.ret = Num(2)
  /\ hostTimers[1].st = "fired"
  /\ scheduledTimeouts = {2}
  /\ hostTimers[2].delay = 6

\* a step of the callback of a fired timer after one of its resume calls
\* returned
TimerResumeReturned == ReturnFromTimer \/ TimerRetry

\* C19: when a scheduled timer fires the host calls resume; each time a resume
\* of that callback returns, the host calls resume again if the id of the
\* timer is still in the registry, and ends the callback without another
\* resume if the registry no longer contains the id.
C19_TimerResumesWhileRegistered ==
  [][/\ \A t \in 1..MaxTimers :
          TimerFire(t)
            => (/\ lastOp'.op = "resume"
                /\ lastOp'.by = "timer"
                /\ resumeGuard = "enter"
                      => (/\ lastOp'.exp = "resume"
                          /\ Len(stack') = 1
                          /\ stack'[1].by = "timer"
                          /\ stack'[1].tid = t))
     /\ TimerResumeReturned
          => IF Top.tid \in scheduledTimeouts
               THEN /\ lastOp'.by = "retry"
                    /\ lastOp'.res = resumeGuard \/ lastOp'.res = "entered"
                    /\ resumeGuard = "enter"
                          => (/\ lastOp'.exp = "resume"
                              /\ Len(stack') = Len(stack)
                              /\ stack'[Len(stack')].tid = Top.tid)
               ELSE /\ lastOp'.res = "returned"
                    /\ lastOp'.exp = "none"
                    /\ stack' = Pop]_vars

\* C19 witness: timer 1 fired, the guest returned from the first resume with
\* id 1 still registered, and the callback entered resume a second time.
C19_Witness ==
  /\ GuestRunning
  /\ Top.by = "timer"
  /\ Top.tid = 1
  /\ lastOp.op = "resume"
  /\ lastOp.by = "retry"
  /\ lastOp.res = "entered"
  /\ 1 \in scheduledTimeouts

\* C20: clearTimeoutEvent(id) on a registered timer that has not fired cancels
\* the host timer and removes the mapping, and that timer never calls resume:
\* a cancelled timer stays cancelled and every timer that fires is registered;
\* clearTimeoutEvent on an id that is not in the registry changes nothing of
\* the timer service.
C20_ClearedTimerNeverFires ==
  [][/\ \A id \in 1..MaxTimers :
          GuestClearTimeout(id)
            => IF id \in scheduledTimeouts
                 THEN /\ scheduledTimeouts' = scheduledTimeouts \ {id}
                      /\ hostTimers[id].st = "armed"
                            => hostTimers'[id].st = "cleared"
                      /\ \A t \in DOMAIN hostTimers \ {id} :
                            hostTimers'[t] = hostTimers[t]
                 ELSE UNCHANGED <<scheduledTimeouts, hostTimers,
                                  nextCallbackTimeoutID, stack>>
     /\ \A t \in DOMAIN hostTimers :
          /\ TimerFire(t) => t \in scheduledTimeouts
          /\ hostTimers[t].st = "cleared"
                => (hostTimers'[t].st = "cleared" /\ ~TimerFire(t))]_vars

\* C20 witness: timer 1 was cleared before it fired; later timer 2 fired, was
\* cleared by the guest during its resume, and the callback returned, with
\* timer 1 still cancelled.
C20_Witness ==
  /\ HostIdle
  /\ Len(hostTimers) = 2
  /\ hostTimers[1].st = "cleared"
  /\ hostTimers[2].st = "fired"
  /\ scheduledTimeouts = {}
  /\ lastOp.op = "resume"
  /\ lastOp.res = "returned"

\* a step in which clearTimeoutEvent(id) is called for a timer that has fired
\* and whose id is still registered
ClearAfterFire(id) ==
  /\ GuestClearTimeout(id)
  /\ id \in scheduledTimeouts
  /\ hostTimers[id].st = "fired"

\* C21 as stated: clearTimeoutEvent(id) after the timer of id fired and before
\* the id was deregistered leaves the timer registry unchanged.
C21_ClearAfterFireKeepsRegistry ==
  [][\A id \in 1..MaxTimers :
       ClearAfterFire(id) => scheduledTimeouts' = scheduledTimeouts]_vars

\* C21: clearTimeoutEvent(id) after the timer of id fired and before the id
\* was deregistered is the deregistration: it removes the mapping of id and
\* of no other id, and changes no host timer (the cancellation of a timer
\* that already fired has no effect).
C21_ClearAfterFireDeregisters ==
  [][\A id \in 1..MaxTimers :
       ClearAfterFire(id)
         => (/\ scheduledTimeouts' = scheduledTimeouts \ {id}
             /\ hostTimers' = hostTimers
             /\ nextCallbackTimeoutID' = nextCallbackTimeoutID)]_vars

\* C21 witness: during the resume of the callback of timer 1 the guest has
\* just called clearTimeoutEvent(1); the timer stays fired and id 1 is gone
\* from the registry, so the callback will make no further resume.
C21_Witness ==
  /\ GuestRunning
  /\ Top.by = "timer"
  /\ Top.tid = 1
  /\ lastOp.op = "clear"
  /\ hostTimers[1].st = "fired"
  /\ 1 \notin scheduledTimeouts

(***************************************************************************)
(* Claims about the lifecycle of the table and the registry.               *)
(***************************************************************************)

\* C22: when the guest exits, the value table and the timer registry are
\* dropped: after runtime.wasmExit no timer is registered, and the table holds
\* no value beyond the seeded ones and maps none in the inverse map.
C22_ExitDropsTableAndRegistry ==
  [][(\E c \in ExitCodes : GuestWasmExit(c))
       => (/\ scheduledTimeouts' = {}
           /\ \A t \in DOMAIN hostTimers' : hostTimers'[t].st # "armed"
           /\ Len(values') <= SeedLen
           /\ \A v \in RefVals : v \notin DOMAIN ids')]_vars

(***************************************************************************)
(* Claims about the reflective imports.                                    *)
(***************************************************************************)

\* the byte of the memory at a byte address
ByteAt(a) == mem[a - (a % 8)][(a % 8) + 1]

\* C23: valueCall, valueInvoke and valueNew write their result and their
\* success byte relative to the stack pointer getsp() returns after the
\* reflective call returned or threw (valueCall at +56 / +64, valueInvoke and
\* valueNew at +40 / +48) and never relative to the sp of the call: when the
\* callee moved the guest stack, the slots at the old offsets keep what they
\* held when the import was entered.
C23_ResultAtRefreshedSp ==
  (impCall.imp \in {"valueCall", "valueInvoke", "valueNew"}
     /\ impCall.stage \in {"stored", "done"})
    => LET res == sp + (IF impCall.imp = "valueCall" THEN 56 ELSE 40)
           ok == sp + (IF impCall.imp = "valueCall" THEN 64 ELSE 48)
           oldRes == impCall.sp0 + (IF impCall.imp = "valueCall" THEN 56 ELSE 40)
           oldOk == impCall.sp0 + (IF impCall.imp = "valueCall" THEN 64 ELSE 48)
       IN /\ tblOp.addr = res
          /\ loadValue(res) = impCall.v
          /\ impCall.stage = "done" => ByteAt(ok) = (IF impCall.threw THEN 0 ELSE 1)
          /\ sp # impCall.sp0
                => (mem[oldRes] = impCall.m0[oldRes] /\ mem[oldOk] = impCall.m0[oldOk])

\* C23 witness: valueCall entered with sp = 64, the callee moved the stack to
\* 256 and returned an object: the reference is at 256 + 56, the success byte
\* 1 at 256 + 64, and the slots at 64 + 56 and 64 + 64 are untouched.
C23_Witness ==
  /\ impCall.imp = "valueCall"
  /\ impCall.stage = "done"
  /\ impCall.sp0 = 64
  /\ sp = 256
  /\ loadValue(312) = Obj(1)
  /\ ByteAt(320) = 1
  /\ mem[120] = zeroSlot
  /\ mem[128] = zeroSlot

\* C24: every reflective property-access import that writes a result after
\* an operation that may run guest code (valueGet at +32, valueIndex at +24)
\* writes it relative to the stack pointer getsp() returns after the access,
\* not relative to the sp it was entered with.
C24_AccessResultAtRefreshedSp ==
  (impCall.imp \in {"valueGet", "valueIndex"} /\ impCall.stage = "done")
    => LET res == sp + (IF impCall.imp = "valueGet" THEN 32 ELSE 24) IN
       /\ tblOp.addr = res
       /\ loadValue(res) = impCall.v

\* C25: when the target of valueCall, valueInvoke or valueNew throws, the
\* import returns to the guest with the thrown error stored in the result slot
\* and the success byte 0; when the target returns, with the result stored and
\* the success byte 1; the exception never leaves the import.
C25_ThrowBecomesResult ==
  impCall.imp \in {"valueCall", "valueInvoke", "valueNew"}
    => /\ impCall.stage # "trapped"
       /\ impCall.stage = "done"
            => LET ok == impCall.addr + 8 IN
               /\ GuestRunning
               /\ IF impCall.threw
                    THEN loadValue(impCall.addr) = Err /\ ByteAt(ok) = 0
                    ELSE /\ impCall.v \in CallResults
                         /\ loadValue(impCall.addr) = impCall.v
                         /\ ByteAt(ok) = 1

\* C25 witness: a valueNew whose constructor threw, after a call that had
\* left success byte 1 in the same slot: the error is the result and the
\* byte is 0.
C25_Witness ==
  /\ impCall.imp = "valueNew"
  /\ impCall.stage = "done"
  /\ impCall.threw
  /\ loadValue(impCall.addr) = Err
  /\ impCall.m0[impCall.addr + 8][1] = 1
  /\ ByteAt(impCall.addr + 8) = 0

(***************************************************************************)
(* Claims about copyBytesToGo and copyBytesToJS.                           *)
(***************************************************************************)

\* the smaller of two lengths
Least(a, b) == IF a < b THEN a ELSE b

\* the first n bytes of the backing array of the guest's slice
Backing(m, n) == SubSeq(m[512], 1, n)

\* C26: copyBytesToGo and copyBytesToJS copy exactly min(dst.length,
\* src.length) bytes from the start of src to the start of dst (the rest of
\* dst and all of src stay as they were), store that count as int64 at sp + 40
\* and success byte 1 at sp + 48; when the host operand is neither a
\* Uint8Array nor a Uint8ClampedArray they write success byte 0 at sp + 48,
\* copy nothing and leave the count slot and the destination unchanged.
C26_CopyBytes ==
  [][LET n == copyOp'.len
         h == copyOp'.h
     IN
       /\ CopyBytesToGo(n, h)
            => IF h.kind \in {"Uint8Array", "Uint8ClampedArray"}
                 THEN LET k == Least(n, Len(h.bytes)) IN
                      /\ Backing(mem', k) = SubSeq(h.bytes, 1, k)
                      /\ \A i \in (k + 1)..8 : mem'[512][i] = mem[512][i]
                      /\ hostArr' = h
                      /\ mem'[sp + 40] = <<k, 0, 0, 0, 0, 0, 0, 0>>
                      /\ mem'[sp + 48][1] = 1
                 ELSE /\ mem'[512] = mem[512]
                      /\ mem'[sp + 40] = mem[sp + 40]
                      /\ mem'[sp + 48][1] = 0
       /\ CopyBytesToJS(n, h)
            => IF h.kind \in {"Uint8Array", "Uint8ClampedArray"}
                 THEN LET k == Least(Len(h.bytes), n) IN
                      /\ Len(hostArr'.bytes) = Len(h.bytes)
                      /\ SubSeq(hostArr'.bytes, 1, k) = Backing(mem, k)
                      /\ \A i \in (k + 1)..Len(h.bytes) : hostArr'.bytes[i] = h.bytes[i]
                      /\ mem'[512] = mem[512]
                      /\ mem'[sp + 40] = <<k, 0, 0, 0, 0, 0, 0, 0>>
                      /\ mem'[sp + 48][1] = 1
                 ELSE /\ hostArr' = h
                      /\ mem'[512] = mem[512]
                      /\ mem'[sp + 40] = mem[sp + 40]
                      /\ mem'[sp + 48][1] = 0]_vars

\* C26 witness: copyBytesToJS of the guest's 3-byte slice 11, 12, 13 into a
\* Uint8Array that held 21, 22 copied 2 bytes: the array holds 11, 12, the
\* count is 2, the success byte 1, and the guest's bytes are as they were.
C26_Witness ==
  /\ copyOp = [op |-> "toJS", len |-> 3, h |-> HostArr("Uint8Array", <<21, 22>>)]
  /\ hostArr = HostArr("Uint8Array", <<11, 12>>)
  /\ Backing(mem, 3) = <<11, 12, 13>>
  /\ mem[sp + 40] = <<2, 0, 0, 0, 0, 0, 0, 0>>
  /\ mem[sp + 48][1] = 1

(***************************************************************************)
(* Claims about the sys shim.                                              *)
(***************************************************************************)

\* the sys shim under a running guest
SpecSys == InitRefs /\ [][NextSys]_vars

\* what console.log has put out: each logged text and the newline it adds
RECURSIVE Emitted(_)
Emitted(logs) ==
  IF logs = <<>> THEN <<>> ELSE Head(logs) \o <<Newline>> \o Emitted(Tail(logs))

\* the text of every array given to writeSync, in call order
RECURSIVE Written(_)
Written(bufs) ==
  IF bufs = <<>> THEN <<>> ELSE decode(Head(bufs)) \o Written(Tail(bufs))

ShimBufs == {<<97>>, <<10>>}

NextShim ==
  \/ \E fd \in Fds, buf \in ShimBufs : WasmWrite(fd, buf)
  \/ \E fd \in Fds, buf \in ShimBufs : \E a \in WriteArgs(buf) : FsWrite(fd, buf, a)
  \/ \E name \in FsStubs : FsStub(name)
  \/ \E fd \in Fds : Fsync(fd)
  \/ \E name \in ProcessIds : ProcessId(name)
  \/ \E name \in ProcessStubs : ProcessStub(name)

SpecShim == InitRefs /\ [][NextShim]_vars

\* the step leaves the output buffer and what was emitted as they were
Unbuffered == outputBuf' = outputBuf /\ sink' = sink /\ writes' = writes

\* C28: every member of fs other than writeSync, write and fsync calls its
\* callback exactly once, with the ENOSYS error, and leaves the output buffer
\* unchanged; fsync calls back with no error; write with offset # 0, length #
\* buf.length or position # null calls back with ENOSYS and buffers nothing;
\* getuid, getgid, geteuid, getegid return -1; getgroups, umask, cwd, chdir
\* throw the ENOSYS error.
C28_NotImplemented ==
  [][LET op == sysOp'.op
         fd == sysOp'.fd
     IN
     /\ (op \in FsStubs /\ FsStub(op))
        => /\ op \notin {"writeSync", "write", "fsync"}
           /\ Len(sysOp'.cb) = 1
           /\ sysOp'.cb[1].err = "ENOSYS"
           /\ sysOp'.threw = "none"
           /\ Unbuffered
     /\ (op = "fsync" /\ Fsync(fd))
        => /\ Len(sysOp'.cb) = 1
           /\ sysOp'.cb[1].err = "null"
           /\ Unbuffered
     /\ op = "write"
        => \A buf \in ShimBufs : \A a \in WriteArgs(buf) :
             (/\ a.offset # 0 \/ a.length # Len(buf) \/ a.position # "null"
              /\ FsWrite(fd, buf, a))
             => /\ Len(sysOp'.cb) = 1
                /\ sysOp'.cb[1].err = "ENOSYS"
                /\ Unbuffered
     /\ (op \in {"getuid", "getgid", "geteuid", "getegid"} /\ ProcessId(op))
        => sysOp'.returned /\ sysOp'.ret = -1
     /\ (op \in {"getgroups", "umask", "cwd", "chdir"} /\ ProcessStub(op))
        => ~sysOp'.returned /\ sysOp'.threw = "ENOSYS"
    ]_vars

\* C28 witness: with "a" in the output buffer, fs.write on fd 2 with an
\* argument off was answered by one callback carrying ENOSYS, and "a" alone
\* is still buffered.
C28_Witness ==
  /\ sysOp = SysOp("write", 2, <<Callback("ENOSYS", -1)>>, 0, TRUE, "none")
  /\ writes = <<<<97>>>>
  /\ outputBuf = <<97>>
  /\ sink = <<>>

(***************************************************************************)
(* Claims about the memory view.                                           *)
(***************************************************************************)

\* createJsGo from construction, its guest growing its memory
SpecView == InitJsGo /\ [][NextView]_vars

\* a typed accessor, loadSlice, loadString or wasmWrite has been called
Accessed ==
  \/ viewOp'.op \in Accessors /\ Access(viewOp'.op)
  \/ viewOp'.op = "wasmWrite" /\ WasmWrite(sysOp'.fd, <<97>>)

NextAlloc ==
  \/ \E addr \in Addrs, v \in RefVals : StoreValue(addr, v)
  \/ \E id \in Ids : FinalizeRef(id)

SpecAlloc == InitRefs /\ [][NextAlloc]_vars

\* storeValue has given an id to a value that was not in the inverse map
Allocated ==
  /\ tblOp'.op = "store" /\ tblOp'.alloc
  /\ StoreValue(tblOp'.addr, tblOp'.v)

\* finalizeRef has brought the count of an id to zero
Freed == tblOp'.op = "remove" /\ FinalizeRef(tblOp'.id) /\ Len(idPool') > Len(idPool)

\* C30: storeValue of a value absent from the inverse map takes the most
\* recently freed id off the free-list when there is one and the next index
\* past the table end otherwise; the table grows only while the free-list is
\* empty; and storeValue(obj) right after the finalizeRef that freed obj's id
\* gets that id again without growing the table.
C30_FreedIdReused ==
  [][/\ Freed => idPool' = Append(idPool, tblOp'.id)
     /\ (Allocated /\ idPool # <<>>)
        => /\ tblOp'.id = idPool[Len(idPool)]
           /\ idPool' = SubSeq(idPool, 1, Len(idPool) - 1)
           /\ Len(values') = Len(values)
     /\ (Allocated /\ idPool = <<>>)
        => /\ tblOp'.id = Len(values)
           /\ Len(values') = Len(values) + 1
           /\ idPool' = <<>>
     /\ Len(values') > Len(values) => idPool = <<>>
     /\ (/\ Allocated
         /\ tblOp.op = "remove" /\ tblOp.v = tblOp'.v
         /\ tblOp.v \notin DOMAIN ids)
        => /\ tblOp'.id = tblOp.id
           /\ Len(values') = Len(values)
    ]_vars

\* C30 witness: the string got id 7 and the object id 8, the guest finalized
\* 8 and then 7, and storeValue of the object took 7, the id freed last: 8
\* stays on the free-list and the table still has nine entries.
C30_Witness ==
  /\ tblOp.op = "store" /\ tblOp.alloc
  /\ tblOp.v = Obj(1) /\ tblOp.id = 7
  /\ idPool = <<8>>
  /\ Len(values) = 9
  /\ valueAt(7) = Obj(1)

(***************************************************************************)
(* Claims about runtime.walltime.                                          *)
(***************************************************************************)

\* either driver, the guest entered by run, the two result slots of
\* walltime on its stack zeroed
InitWall ==
  /\ \E d \in Drafts :
       InitGuestMem(d, [a \in Addrs \cup {64 + 8, 64 + 16} |-> zeroSlot])
  /\ int64Op = NoInt64

\* the wall clock read by a running guest
SpecWall == InitWall /\ [][NextWall]_vars

\* what the guest finds on its stack: sec int64 at sp + 8, nsec int32 at sp + 16
WallSecLow == getUint32(mem, wallOp.sp + 8, 0)
WallSecHigh == getUint32(mem, wallOp.sp + 8, 4)
WallNsec == getUint32(mem, wallOp.sp + 16, 0)

\* C31: for a wall-clock reading of msec milliseconds, a non-negative
\* integer, runtime.walltime writes floor(msec / 1000) as int64 at sp + 8 and
\* (msec mod 1000) * 1000000 as int32 at sp + 16, so that seconds * 10^9 +
\* nanoseconds = msec * 10^6 (stated here divided by 10^6, which nanoseconds
\* is a multiple of) and 0 <= nanoseconds < 10^9.
C31_WallTime ==
  wallOp.called =>
    /\ WallSecHigh = 0
    /\ WallSecLow = wallOp.msec \div 1000
    /\ WallNsec = (wallOp.msec % 1000) * 1000000
    /\ WallNsec % 1000000 = 0
    /\ WallSecLow * 1000 + WallNsec \div 1000000 = wallOp.msec
    /\ 0 <= WallNsec /\ WallNsec < 1000000000

\* C31 witness: the clock read 1999 ms: 1 second and 999000000 nanoseconds.
C31_Witness ==
  /\ wallOp.called /\ wallOp.msec = 1999
  /\ WallSecLow = 1 /\ WallSecHigh = 0
  /\ WallNsec = 999000000

(***************************************************************************)
(* Claims about the consistency of the value table.                        *)
(***************************************************************************)

\* what the imports store here: the string, the object, and two seeded values
TableVals == RefVals \cup {Null, Num(0)}

\* imports storing and reading, the guest finalizing any id in any order
NextTable ==
  \/ \E addr \in Addrs, v \in TableVals : StoreValue(addr, v)
  \/ \E id \in Ids : FinalizeRef(id)
  \/ \E addr \in Addrs : LoadValue(addr)

SpecTable == InitRefs /\ [][NextTable]_vars

\* C32: the inverse map and the table agree in every reachable state: the
\* slot of each id in the inverse map holds the value mapped to it, no two
\* values are mapped to one id, and the ref-count of every non-seeded id in
\* the inverse map is the number of storeValue calls of its value since the
\* id was allocated less the number of removeRef calls on it.
C32_InverseMapAgrees ==
  /\ \A v \in DOMAIN ids : valueAt(ids[v]) = v
  /\ \A v, w \in DOMAIN ids : ids[v] = ids[w] => v = w
  /\ \A v \in DOMAIN ids :
       ids[v] >= SeedLen => goRefCounts[ids[v]] = NumC(held[ids[v]])

\* C32 witness: the object sits at the recycled id 7 with two references,
\* the string at id 8 with one.
C32_Witness ==
  /\ Obj(1) \in DOMAIN ids /\ ids[Obj(1)] = 7
  /\ Str(1) \in DOMAIN ids /\ ids[Str(1)] = 8
  /\ goRefCounts[7] = NumC(2) /\ held[7] = 2
  /\ goRefCounts[8] = NumC(1)

\* C33: whatever storeValue and removeRef calls are made, removeRef of one id
\* again and again and of ids outside the table among them, the free-list
\* never holds an id twice and never holds a seeded id 0..6.
C33_FreeListDistinct ==
  /\ \A i, j \in DOMAIN idPool : idPool[i] = idPool[j] => i = j
  /\ \A i \in DOMAIN idPool : idPool[i] >= SeedLen

\* C33 witness: both ids are on the free-list after the guest finalized id 8
\* once more than it held it, id 2 of null, and id 9, which the table never
\* had.
C33_Witness ==
  /\ idPool = <<8, 7>>
  /\ goRefCounts[8] = NumC(-1)
  /\ goRefCounts[9] = NaNC
  /\ goRefCounts[2] = Infinity
  /\ tblOp.op = "remove" /\ tblOp.id = 7

(***************************************************************************)
(* Claims about what the imports do to the value table.                    *)
(***************************************************************************)

\* the imports that store one result
StoreImports == Imports \cup {"stringVal", "valuePrepareString"}

\* what a reflective operation returns: an object, a string, seeded values,
\* a number, nothing
FrameResults == {Obj(1), Str(1), Null, Bool(TRUE), Num(3), Undefined}

\* encoder.encode(...) of the n-th import call: a Uint8Array made there
Bytes(n) == Val("object", "bytes", n)

\* either driver, the guest entered by run; on its stack a reference to
\* globalThis at sp + 8 and, at sp + 16 and at sp + 32, the header of a slice
\* of one value at address 8
InitFrame ==
  /\ \E d \in Drafts :
       InitGuestMem(d, [a \in Addrs \cup {64 + 8 * k : k \in 1..8} \cup {sliceAddr} |->
                          CASE a = 64 + 8 -> <<5, 0, 0, 0, 1, 0, 248, 127>>
                            [] a \in {64 + 16, 64 + 32} -> <<8, 0, 0, 0, 0, 0, 0, 0>>
                            [] a \in {64 + 24, 64 + 40} -> <<1, 0, 0, 0, 0, 0, 0, 0>>
                            [] OTHER -> zeroSlot])
  /\ int64Op = NoInt64

NextFrame ==
  \/ \E imp \in StoreImports : ImportEnter(imp)
  \/ \E v \in FrameResults :
       impCall.imp \in Imports /\ ImportStore(FALSE, v)
  \/ impCall.imp = "stringVal" /\ ImportStore(FALSE, Str(1))
  \/ impCall.imp = "valuePrepareString" /\ ImportStore(FALSE, Bytes(impCall.n))
  \/ ImportStore(TRUE, Undefined)
  \/ ImportOk
  \/ ImportSize(MaxLen)
  \/ \E imp \in ReadImports : ReadImport(imp, MaxLen)
  \/ \E addr \in {64 + 8, 64 + 32} : LoadValue(addr)
  \/ \E addr \in {64 + 16, 64 + 32} : LoadSliceOfValues(addr)

SpecFrame == InitFrame /\ [][NextFrame]_vars

\* loadValue or loadSliceOfValues ran, alone or for an import that only reads
ReadStep ==
  \/ tblOp'.op = "load" /\ tblOp'.addr \in {64 + 8, 64 + 32} /\ LoadValue(tblOp'.addr)
  \/ tblOp'.op = "loadSlice" /\ LoadSliceOfValues(tblOp'.addr)
  \/ impCall'.imp \in ReadImports /\ ReadImport(impCall'.imp, MaxLen)

\* an import stored a result that is not a number and not undefined
ResultStored ==
  /\ impCall.stage = "calling"
  /\ impCall'.stage \in {"stored", "sizing", "done"}
  /\ ImportStore(impCall'.threw, impCall'.v)
  /\ impCall'.v.t # "number" /\ impCall'.v # Undefined

\* the count of id went up by one, from 0 for an id given out by this store,
\* and no other count changed
RaisedByOne(id) ==
  /\ goRefCounts'[id].k = "num"
  /\ IF tblOp'.alloc THEN goRefCounts'[id].n = 1
       ELSE goRefCounts[id].k = "num" /\ goRefCounts'[id].n = goRefCounts[id].n + 1
  /\ \A j \in Ids \ {id} : goRefCounts'[j] = goRefCounts[j]

\* C34 as claimed: loadValue and loadSliceOfValues change neither the table
\* nor the ref-counts, the inverse map or the free-list, so the imports that
\* only read operands leave the value table unchanged, and each import that
\* stores a result that is not a number and not undefined raises exactly one
\* ref-count by exactly 1.
C34_EveryStoreRaisesOneCount ==
  [][/\ ReadStep => UNCHANGED <<values, goRefCounts, ids, idPool>>
     /\ ResultStored => \E id \in Ids : RaisedByOne(id)
    ]_vars

\* C34 amended: the reads leave table, ref-counts, inverse map and free-list
\* unchanged; an import that stores a result that is not a number and not
\* undefined raises exactly one ref-count by exactly 1, that of the result's
\* id, when the id is not a seeded one; for a seeded result (null, true,
\* false, globalThis, the jsGo object) every ref-count stays as it is, the
\* count of a seeded id being Infinity.
C34_StoreRaisesOneCountUnlessSeeded ==
  [][/\ ReadStep => UNCHANGED <<values, goRefCounts, ids, idPool>>
     /\ ResultStored =>
          IF tblOp'.id >= SeedLen
            THEN RaisedByOne(tblOp'.id)
            ELSE /\ goRefCounts' = goRefCounts
                 /\ goRefCounts[tblOp'.id] = Infinity
                 /\ UNCHANGED <<values, ids, idPool>>
    ]_vars

\* C34 witness: valueGet returned null after an earlier import had stored an
\* object: the reference to id 2 is in the result slot, the object's count
\* is still 1 and the count of id 2 still Infinity.
C34_Witness ==
  /\ impCall.imp = "valueGet" /\ impCall.stage = "done"
  /\ impCall.v = Null
  /\ loadValue(64 + 32) = Null
  /\ Obj(1) \in DOMAIN ids /\ goRefCounts[ids[Obj(1)]] = NumC(1)
  /\ goRefCounts[2] = Infinity

(***************************************************************************)
(* Claims about a slot of the guest that outlives its id.                  *)
(***************************************************************************)

\* two slots of the guest: a reference left in one, later stores in the other
StaleAddrs == {8, 16}

InitStale ==
  /\ InitGuestMem("jsGo", [a \in StaleAddrs |-> zeroSlot])
  /\ int64Op = NoInt64

NextStale ==
  \/ \E addr \in StaleAddrs, v \in RefVals : StoreValue(addr, v)
  \/ \E id \in Ids : FinalizeRef(id)
  \/ \E addr \in StaleAddrs : LoadValue(addr)

SpecStale == InitStale /\ [][NextStale]_vars

\* the slot holds a reference, and the id in its low word
CarriesRef(addr) == getFloat64(mem, addr).k = "nan"
SlotId(addr) == getUint32(mem, addr, 0)

\* the id was collected and not given out again
Collected(id) == \E i \in 1..Len(idPool) : idPool[i] = id

GuestExited == exitLog # <<>>

\* C36: a timer's fire callback ends only when the guest has removed the id
\* from the registry or has exited. wasmExit cancels no timer and empties no
\* registry; a timer that fires after the exit, and a retry of the loop after
\* the guest exited with the id still registered, call resume, which raises
\* "already exited" and ends the callback without entering the guest; while
\* the guest neither deregisters the id nor exits, every return of a resume
\* is followed by another resume.
C36_TimerCallbackEndsOnExitOrDeregistered ==
  [][/\ (lastOp'.op = "exit" /\ \E c \in ExitCodes : GuestWasmExit(c))
          => UNCHANGED <<hostTimers, scheduledTimeouts>>
     /\ \A t \in 1..MaxTimers :
          (GuestExited /\ TimerFire(t))
            => (lastOp'.res = "AlreadyExited" /\ lastOp'.exp = "none" /\ stack' = stack)
     /\ (TimerResumeReturned /\ Top.tid \in scheduledTimeouts)
          => IF GuestExited
               THEN lastOp'.res = "AlreadyExited" /\ lastOp'.exp = "none" /\ stack' = Pop
               ELSE lastOp'.res = "entered" /\ lastOp'.exp = "resume"
                      /\ Len(stack') = Len(stack)
     /\ (TimerResumeReturned /\ stack' = Pop)
          => (Top.tid \notin scheduledTimeouts \/ GuestExited)
    ]_vars

(***************************************************************************)
(* Claims about the pending event across wrapper calls.                    *)
(***************************************************************************)

\* any of the three factories, nothing loaded yet
InitPending == (\E d \in Factories : InitDriver(d)) /\ InitTable /\ InitAux

\* the embedder loads and runs; the guest makes wrappers, handles their
\* events and exits; wrappers are called by the host with globalThis and 3,
\* by the guest with no receiver and no argument
NextPending ==
  \/ LoadModule
  \/ Run(MainArgs, MainEnv)
  \/ ReturnFromRun
  \/ \E code \in ExitCodes : GuestWasmExit(code)
  \/ \E k \in FuncIds : MakeFuncWrapper(k)
  \/ \E k \in FuncIds : InvokeWrapper(k, GlobalThis, <<Num(3)>>)
  \/ \E k \in FuncIds : GuestInvokeWrapper(k, Undefined, <<>>)
  \/ ReturnFromWrapper
  \/ GuestGetPendingEvent
  \/ GuestClearPendingEvent
  \/ GuestSetResult(Num(3))

SpecPending == InitPending /\ [][NextPending]_vars

\* the fields of an event record
Record(ev) == <<ev.id, ev.this, ev.args>>

\* C37: the host never clears the pending event. The record in _pendingEvent
\* changes only when a wrapper stages its own or the guest clears it, so
\* after a func-wrapper returns it is still the record staged last unless the
\* guest cleared it; and a wrapper invoked after the guest exited, or before
\* a module is loaded, has put its own record there when resume raises.
C37_HostNeverClearsPendingEvent ==
  [][/\ ReturnFromWrapper => Record(stagedEvent') = Record(stagedEvent)
     /\ Record(stagedEvent') # Record(stagedEvent)
          => \/ GuestClearPendingEvent
             \/ \E k \in FuncIds, r \in Receivers, a \in EventArgs :
                  WrapperInvoked(k, r, a) /\ Record(stagedEvent') = <<k, r, a>>
     /\ \A k \in FuncIds, r \in Receivers, a \in EventArgs :
          (WrapperInvoked(k, r, a) /\ resumeGuard # "enter")
            => (/\ lastOp'.res = resumeGuard
                /\ lastOp'.exp = "none"
                /\ stack' = stack
                /\ Record(stagedEvent') = <<k, r, a>>)
    ]_vars

\* C37 witness: the guest exited and its run returned; a wrapper called by
\* the host with the argument 3 got "already exited" from resume, and its
\* record is the pending event.
C37_Witness ==
  /\ exited /\ HostIdle
  /\ lastOp.op = "wrapper" /\ lastOp.res = "AlreadyExited"
  /\ Record(stagedEvent) = <<42, GlobalThis, <<Num(3)>>>>

\* a reference to an event of a call in progress is a reference to the record
\* the wrapper of that activation created
OwnRecord(ref, stk) ==
  ref.frame > 0 =>
    /\ ref.frame <= Len(stk)
    /\ stk[ref.frame].by = "wrapper"
    /\ Record(ref) = <<stk[ref.frame].k, stk[ref.frame].this, stk[ref.frame].args>>

\* C38: a func-wrapper invoked while the resume of another wrapper is in
\* progress replaces the staged pending event with its own record and calls
\* resume a second time, one guest activation deeper, leaving the record of
\* the outer call as it is; the guest writes a result only into the record
\* it read; and each wrapper returns the result field of the record of its
\* own activation.
C38_NestedWrapperReturnsOwnResult ==
  [][/\ \A k \in FuncIds :
          (GuestInvokeWrapper(k, Undefined, <<>>) /\ Top.by = "wrapper")
            => (/\ Record(stagedEvent') = <<k, Undefined, <<>>>>
                /\ lastOp'.op = "wrapper"
                /\ resumeGuard = "enter"
                      => (/\ lastOp'.exp = "resume"
                          /\ stagedEvent'.frame = Len(stack) + 1
                          /\ Len(stack') = Len(stack) + 1
                          /\ SubSeq(stack', 1, Len(stack)) = stack))
     /\ OwnRecord(stagedEvent', stack') /\ OwnRecord(guestEvent', stack')
     /\ GuestSetResult(Num(3))
          => \A i \in 1..Len(stack) : i # guestEvent.frame => stack'[i] = stack[i]
     /\ ReturnFromWrapper => (lastOp'.ret = Top.result /\ stack' = Pop)
    ]_vars

\* C38 witness: the wrapper the host called with globalThis and 3 returned
\* the 3 the guest wrote into its record, although the record staged last is
\* that of the call the guest made while the resume was in progress.
C38_Witness ==
  /\ HostIdle
  /\ lastOp.op = "wrapper" /\ lastOp.by = "host" /\ lastOp.res = "returned"
  /\ lastOp.ret = Num(3)
  /\ Record(stagedEvent) = <<42, Undefined, <<>>>>
====
